---- MODULE Spec2Model ----
(***************************************************************************)
(* Model of ctx42/ring: the copy-on-write execution context (Ring) with    *)
(* its environment and metadata stores, and the thread-safe instrumented   *)
(* buffer (TSBuffer) with its dry/wet teardown checks.                     *)
(*                                                                         *)
(* Go strings that the code parses or concatenates (environment lines,     *)
(* keys, values, buffer contents) are sequences of one-character strings.  *)
(* Go maps live in a heap (a sequence of functions); a map reference is an *)
(* index into the heap and 0 is the nil map.                               *)
(***************************************************************************)
EXTENDS Integers, Sequences, FiniteSets, TLC

VARIABLES
    envHeap,    \* allocated map[string]string stores (Env.e), by address
    metaHeap,   \* allocated map[string]any stores (Ring.m), by address
    rings,      \* every Ring value returned so far, in order of creation
    lineage,    \* for each ring, the index of the New call it descends from
    origin,     \* for each ring, the call that returned it: method, receiver, options
    op,         \* the last Ring operation: name, receiver, arguments
    buf,        \* TSBuffer.buf contents
    wc,         \* TSBuffer.wc
    rc,         \* TSBuffer.rc
    check,      \* TSBuffer.check
    kind,       \* TSBuffer.kind
    name,       \* TSBuffer.name
    mx,         \* TSBuffer.mx: the thread holding it, or NoThread
    pc,         \* each thread's position in the method it is executing
    call,       \* each thread's current call: method and argument
    tmp,        \* each thread's local (register) copy of a counter or flag
    ret,        \* each thread's last return value
    snap,       \* buffer fields as they were when the guard was last acquired
    prev,       \* method of the call that held the guard before the holder
    ncalls,     \* number of calls started so far
    hist,       \* per thread, the methods it has called, in order
    failures,   \* messages reported through t.Errorf, in order
    arrays,     \* backing arrays of the []string values the free helpers see
    envArg,     \* the caller's env slice: backing array, length, capacity
    free,       \* the last free-helper call: arguments, input as it was, result
    nfree,      \* number of free-helper calls made so far
    envLines,   \* the lines the Env under observation was last built from
    store,      \* the Env under observation: its map (or nil) and its origin
    got,        \* the last result read from the Env or from its lines
    tst,        \* the Tester: its maps, its stream buffers, clock and name
    bufs,       \* the buffers DryBuffer and WetBuffer returned to the Tester
    cleanups,   \* the buffers whose checks t.Cleanup registered, in order
    reported,   \* the failures the checks reported at teardown, in order
    tlog,       \* the Ring and stream calls made so far: call, stream, buffer, bytes
    nops,       \* number of Tester and stream calls made so far
    torn,       \* the test has ended and its cleanups have run
    held        \* the metadata maps the calling code holds a reference to

ringVars == <<envHeap, metaHeap, rings, lineage, origin, op>>
bufVars  == <<buf, wc, rc, check, kind, name, mx, pc, call, tmp, ret, snap,
              prev, ncalls, hist, failures>>
freeVars == <<arrays, envArg, free, nfree>>
storeVars == <<envLines, store, got>>
testerVars == <<tst, bufs, cleanups, reported, tlog, nops, torn, held>>
vars     == <<ringVars, bufVars, freeVars, storeVars, testerVars>>

----------------------------------------------------------------------------
(* Bounds of the model. *)

\* Number of Ring values (New calls and mutator results) a behaviour creates.
MaxRings == 3

\* Number of TSBuffer method calls a behaviour starts (teardown excluded).
MaxCalls == 3

----------------------------------------------------------------------------
(* Strings and slices. *)

EmptyMap == [x \in {} |-> 0]

\* A Go []string: nil, or a (possibly empty) allocated sequence of strings.
NilSlice      == [isNil |-> TRUE, items |-> <<>>]
Slice(items)  == [isNil |-> FALSE, items |-> items]

\* slices.Clone keeps nil as nil and copies the elements otherwise.
SlicesClone(s) == IF s.isNil THEN NilSlice ELSE Slice(s.items)

\* append(a, b...): nil only when a is nil and b has no elements.
SliceAppend(a, b) ==
    IF a.isNil /\ Len(b.items) = 0 THEN NilSlice ELSE Slice(a.items \o b.items)

\* Index of the first "=" of s, 0 when there is none (strings.SplitN(s, "=", 2)).
RECURSIVE IndexEq(_, _)
IndexEq(s, i) ==
    IF i > Len(s) THEN 0
    ELSE IF s[i] = "=" THEN i
    ELSE IndexEq(s, i + 1)

MapSet(m, k, v) == [x \in DOMAIN m \cup {k} |-> IF x = k THEN v ELSE m[x]]
MapDelete(m, k) == [x \in DOMAIN m \ {k} |-> m[x]]

\* Mutant of EnvSplitFrom: a key that is already in the map keeps its value.
RECURSIVE EnvSplitFirstWins(_, _, _)
EnvSplitFirstWins(env, i, m) ==
    IF i > Len(env) THEN m
    ELSE LET s == env[i]
             p == IndexEq(s, 1)
         IN  IF s = <<>> \/ p = 0 \/ p = 1 \/ SubSeq(s, 1, p - 1) \in DOMAIN m
             THEN EnvSplitFirstWins(env, i + 1, m)
             ELSE EnvSplitFirstWins(env, i + 1,
                      MapSet(m, SubSeq(s, 1, p - 1), SubSeq(s, p + 1, Len(s))))

\* EnvSplit: later lines overwrite earlier ones; lines that are empty, hold no
\* "=" or have an empty key are skipped.
RECURSIVE EnvSplitFrom(_, _, _)
EnvSplitFrom(env, i, m) ==
    IF i > Len(env) THEN m
    ELSE LET s == env[i]
             p == IndexEq(s, 1)
         IN  IF s = <<>> \/ p = 0 \/ p = 1
             THEN EnvSplitFrom(env, i + 1, m)
             ELSE EnvSplitFrom(env, i + 1,
                      MapSet(m, SubSeq(s, 1, p - 1), SubSeq(s, p + 1, Len(s))))

EnvSplit(env) == EnvSplitFrom(env, 1, EmptyMap)

\* NewEnv: a fresh map, empty for a nil slice and parsed from the lines otherwise.
NewEnv(env) == IF env.isNil THEN EmptyMap ELSE EnvSplit(env.items)

\* The orders in which a range over a map with key set S may visit the keys.
KeyOrders(S) ==
    {f \in [1..Cardinality(S) -> S] : \A i, j \in DOMAIN f : f[i] = f[j] => i = j}

\* Mutant of EnvLine: key and value joined by ":".
EnvLineColon(key, value) == key \o <<":">> \o value

\* key + "=" + value
EnvLine(key, value) == key \o <<"=">> \o value

\* Mutant of EnvGetAllList: the list is allocated before the loop.
EnvGetAllListMade == Slice(<<>>)

\* var list []string
EnvGetAllList == NilSlice

\* The loop of Env.EnvGetAll over the keys in the order f: one "key=value" is
\* appended to list per key.
RECURSIVE EnvGetAllRange(_, _, _, _)
EnvGetAllRange(m, f, i, list) ==
    IF i > Len(f) THEN list
    ELSE EnvGetAllRange(m, f, i + 1,
             SliceAppend(list, Slice(<< EnvLine(f[i], m[f[i]]) >>)))

\* Env.EnvGetAll: the list the loop builds, for every order in which the Go
\* runtime may range over the map.
EnvGetAll(m) ==
    {EnvGetAllRange(m, f, 1, EnvGetAllList) : f \in KeyOrders(DOMAIN m)}

\* Mutant of EnvLookup: a key set to the empty string counts as absent.
EnvLookupNonEmpty(m, key) ==
    IF key \in DOMAIN m /\ m[key] # <<>> THEN [val |-> m[key], ok |-> TRUE]
    ELSE [val |-> <<>>, ok |-> FALSE]

\* Env.EnvLookup and Env.EnvGet on a map value.
EnvLookup(m, key) ==
    IF key \in DOMAIN m THEN [val |-> m[key], ok |-> TRUE]
    ELSE [val |-> <<>>, ok |-> FALSE]

EnvGet(m, key) == EnvLookup(m, key).val

----------------------------------------------------------------------------
(* The Ring value and its heap. *)

NilMap == 0

\* The map a reference points to; reading through a nil reference reads an
\* empty map.
Deref(heap, a) == IF a = NilMap THEN EmptyMap ELSE heap[a]

OsArgs    == <<"prog", "-v">>
OsEnviron == Slice(<< <<"H", "=", "h">> >>)

defaultRing ==
    [e      |-> NilMap,
     stdin  |-> "os.Stdin",
     stdout |-> "os.Stdout",
     stderr |-> "os.Stderr",
     clock  |-> "Now",
     args   |-> Tail(OsArgs),
     name   |-> Head(OsArgs),
     m      |-> NilMap,
     fs     |-> "nil"]

\* A construction in progress: the ring and the two heaps.
Build(rng, eh, mh) == [rng |-> rng, envHeap |-> eh, metaHeap |-> mh]

\* Mutant of AttachMeta: the caller's map is copied, as the environment is.
AttachMetaCopy(v, mh) ==
    IF v.isNil THEN [m |-> NilMap, metaHeap |-> mh]
    ELSE [m |-> Len(mh) + 1,
          metaHeap |-> Append(mh, IF v.ref # NilMap THEN mh[v.ref] ELSE v.m)]

\* rng.m = m in WithMeta: the reference the caller passes is stored as it is.
\* The caller passes nil, a map it holds (v.ref), or a map literal (v.m), which
\* is allocated when the call is evaluated.
AttachMeta(v, mh) ==
    IF v.isNil THEN [m |-> NilMap, metaHeap |-> mh]
    ELSE IF v.ref # NilMap THEN [m |-> v.ref, metaHeap |-> mh]
    ELSE [m |-> Len(mh) + 1, metaHeap |-> Append(mh, v.m)]

\* One Option applied to the ring under construction.
ApplyOption(b, o) ==
    CASE o.opt = "WithEnv" ->
             Build([b.rng EXCEPT !.e = Len(b.envHeap) + 1],
                   Append(b.envHeap, NewEnv(o.v)), b.metaHeap)
      [] o.opt = "WithArgs"  -> Build([b.rng EXCEPT !.args = o.v], b.envHeap, b.metaHeap)
      [] o.opt = "WithClock" -> Build([b.rng EXCEPT !.clock = o.v], b.envHeap, b.metaHeap)
      [] o.opt = "WithMeta"  ->
             LET a == AttachMeta(o.v, b.metaHeap)
             IN  Build([b.rng EXCEPT !.m = a.m], b.envHeap, a.metaHeap)
      [] o.opt = "WithFS"    -> Build([b.rng EXCEPT !.fs = o.v], b.envHeap, b.metaHeap)

\* Mutant of ApplyOptions: the options are applied from the last to the first.
RECURSIVE ApplyOptionsReversed(_, _, _)
ApplyOptionsReversed(b, opts, i) ==
    IF i > Len(opts) THEN b
    ELSE ApplyOptionsReversed(ApplyOption(b, opts[Len(opts) + 1 - i]), opts, i + 1)

RECURSIVE ApplyOptions(_, _, _)
ApplyOptions(b, opts, i) ==
    IF i > Len(opts) THEN b ELSE ApplyOptions(ApplyOption(b, opts[i]), opts, i + 1)

\* New: the options in order, then the process environment when no environment
\* map is attached and a fresh metadata map when none is attached.
New(opts, eh, mh) ==
    LET b0 == ApplyOptions(Build(defaultRing, eh, mh), opts, 1)
        b1 == IF b0.rng.e = NilMap
              THEN Build([b0.rng EXCEPT !.e = Len(b0.envHeap) + 1],
                         Append(b0.envHeap, NewEnv(OsEnviron)), b0.metaHeap)
              ELSE b0
    IN  IF b1.rng.m = NilMap
        THEN Build([b1.rng EXCEPT !.m = Len(b1.metaHeap) + 1],
                   b1.envHeap, Append(b1.metaHeap, EmptyMap))
        ELSE b1

----------------------------------------------------------------------------
(* Ring accessors and mutators.  A mutator has a value receiver: it works  *)
(* on a copy of the Ring struct, which shares the maps e and m with the    *)
(* receiver until the mutator replaces the reference.                      *)

WithStdin(rng, sin)   == [rng EXCEPT !.stdin = sin]
WithStdout(rng, sout) == [rng EXCEPT !.stdout = sout]
WithStderr(rng, eout) == [rng EXCEPT !.stderr = eout]
WithArgs(rng, args)   == [rng EXCEPT !.args = args]
WithName(rng, n)      == [rng EXCEPT !.name = n]

\* The result of an environment mutator: the returned ring and the heap.
EnvResult(rng, eh) == [rng |-> rng, envHeap |-> eh]

\* Mutant of RingEnvSet: the variable is set in the receiver's own map.
RingEnvSetInPlace(rng, eh, have, key, value) ==
    EnvResult(rng, [eh EXCEPT ![rng.e] = MapSet(@, key, value)])

\* Ring.EnvSet: a new map parsed from the serialised environment (have is the
\* result of rng.EnvGetAll()), then the variable set in that new map.
RingEnvSet(rng, eh, have, key, value) ==
    EnvResult([rng EXCEPT !.e = Len(eh) + 1],
              Append(eh, MapSet(NewEnv(SlicesClone(have)), key, value)))

\* Ring.EnvSetBulk: a new map parsed from the serialised environment followed
\* by the given lines.
RingEnvSetBulk(rng, eh, have, env) ==
    EnvResult([rng EXCEPT !.e = Len(eh) + 1],
              Append(eh, NewEnv(SliceAppend(SlicesClone(have), env))))

\* Mutant of RingEnvUnset: the variable is deleted from the receiver's own map.
RingEnvUnsetInPlace(rng, eh, have, key) ==
    EnvResult(rng, [eh EXCEPT ![rng.e] = MapDelete(@, key)])

\* Ring.EnvUnset: a new map parsed from the serialised environment, then the
\* variable deleted from that new map.
RingEnvUnset(rng, eh, have, key) ==
    EnvResult([rng EXCEPT !.e = Len(eh) + 1],
              Append(eh, MapDelete(NewEnv(SlicesClone(have)), key)))

\* Env.EnvSetFrom, promoted to Ring from the embedded Env: every entry of src is
\* set in the map the ring refers to (no new map, no new ring).
EnvSetFrom(m, src) ==
    [k \in DOMAIN m \cup DOMAIN src |-> IF k \in DOMAIN src THEN src[k] ELSE m[k]]

\* The result of a metadata mutator: the returned ring and the heap.
MetaResult(rng, mh) == [rng |-> rng, metaHeap |-> mh]

\* Mutant of RingMetaSet: the metadata map is cloned before the write, as the
\* environment is.
RingMetaSetCopy(rng, mh, key, value) ==
    MetaResult([rng EXCEPT !.m = Len(mh) + 1],
               Append(mh, MapSet(Deref(mh, rng.m), key, value)))

\* Ring.MetaSet and Ring.MetaDelete write through the map reference the copy
\* of the struct shares with the receiver.
RingMetaSet(rng, mh, key, value) ==
    MetaResult(rng, [mh EXCEPT ![rng.m] = MapSet(@, key, value)])

RingMetaDelete(rng, mh, key) ==
    MetaResult(rng, IF rng.m = NilMap THEN mh
                    ELSE [mh EXCEPT ![rng.m] = MapDelete(@, key)])

\* Ring.MetaAll (maps.Clone) and a lookup in it.
MetaAll(rng, mh) == Deref(mh, rng.m)

MetaLookup(rng, mh, key) ==
    IF key \in DOMAIN MetaAll(rng, mh)
    THEN [val |-> MetaAll(rng, mh)[key], ok |-> TRUE]
    ELSE [val |-> "nil", ok |-> FALSE]

\* Ring.IsZero: false when the environment map has entries, else true when the
\* metadata map is nil or empty, there are no arguments and the name is empty.
IsZero(rng, eh, mh) ==
    IF Cardinality(DOMAIN Deref(eh, rng.e)) > 0
    THEN FALSE
    ELSE /\ (rng.m = NilMap \/ Cardinality(DOMAIN Deref(mh, rng.m)) = 0)
         /\ Len(rng.args) = 0
         /\ rng.name = ""

\* The error FS returns when no filesystem was configured.
ErrNoFsAccess == "ErrNoFsAccess"

\* Mutant of FS: without a configured filesystem an empty view is returned.
FSEmptyView(rng) ==
    IF rng.fs = "nil" THEN [fs |-> "empty", err |-> "nil"]
    ELSE [fs |-> rng.fs, err |-> "nil"]

\* Ring.FS: the configured filesystem, or no filesystem and ErrNoFsAccess.
FS(rng) ==
    IF rng.fs = "nil" THEN [fs |-> "nil", err |-> ErrNoFsAccess]
    ELSE [fs |-> rng.fs, err |-> "nil"]

\* Ring.EnvLookup, promoted from the embedded Env.
RingEnvLookup(rng, eh, key) == EnvLookup(Deref(eh, rng.e), key)

----------------------------------------------------------------------------
(* Inputs of the Ring operations. *)

sA   == <<"A">>
sB   == <<"B">>
sX   == <<"x">>
sY   == <<"y">>
sAeq == <<"A", "=">>
Line(k, v) == k \o <<"=">> \o v

OptWithEnv(env)   == [opt |-> "WithEnv", v |-> env]
OptWithArgs(args) == [opt |-> "WithArgs", v |-> args]
OptWithClock(clk) == [opt |-> "WithClock", v |-> clk]
OptWithFS(fs)     == [opt |-> "WithFS", v |-> fs]

\* WithMeta(nil), WithMeta of a map literal the caller writes in the call, and
\* WithMeta of the map at address a, which the caller holds.
OptWithMetaNil ==
    [opt |-> "WithMeta", v |-> [isNil |-> TRUE, ref |-> NilMap, m |-> EmptyMap]]
OptWithMeta(m) ==
    [opt |-> "WithMeta", v |-> [isNil |-> FALSE, ref |-> NilMap, m |-> m]]
OptWithMetaOf(a) ==
    [opt |-> "WithMeta", v |-> [isNil |-> FALSE, ref |-> a, m |-> EmptyMap]]
CallerMeta      == [k \in {"k1"} |-> "v0"]

\* Option lists given to New.
NewOptions ==
    { <<>>,
      << OptWithEnv(Slice(<<Line(sA, sX), Line(sB, sY)>>)) >>,
      << OptWithMeta(CallerMeta), OptWithEnv(Slice(<<>>)), OptWithArgs(<<>>),
         OptWithMetaNil >>,
      << OptWithArgs(<<"a1">>), OptWithEnv(Slice(<<Line(sA, sX)>>)),
         OptWithClock("clk"), OptWithMeta(CallerMeta), OptWithEnv(NilSlice),
         OptWithArgs(<<"a2">>) >> }

\* Keys and values given to EnvSet, keys given to EnvUnset.
EnvSetInputs ==
    { <<sA, <<>>>>, <<sA, sY>>, <<sB, sX>>, <<<<>>, sX>>, <<sAeq, sX>> }
EnvUnsetInputs == { sA, sB, <<>> }

\* Lines given to EnvSetBulk.
EnvBulkInputs ==
    { Slice(<<Line(sA, sY)>>),
      Slice(<<Line(sB, sX), Line(sB, <<>>)>>),
      Slice(<<sA, Line(<<>>, sX)>>),
      NilSlice }

\* Maps given to the promoted EnvSetFrom.
sZ == <<"z">>
EnvSetFromInputs == { [k \in {sA} |-> sZ] }

MetaKeys   == {"k1", "k2"}
MetaValues == {"v1", "v2"}
ArgsInputs == { <<>>, <<"-a", "b">> }
NameInputs == { "", "cmd" }

\* Every environment key the model can see.
EnvKeys == {sA, sB, <<>>, sAeq, <<"H">>}

----------------------------------------------------------------------------
(* Ring actions: each appends the returned Ring to rings. *)

\* Mutant of ValueReceiver: a pointer receiver, which changes the caller's ring.
PointerReceiver(rs, i, rng) == Append([rs EXCEPT ![i] = rng], rng)

\* A method with a value receiver (func (rng Ring) ...) changes its own copy of
\* the struct: the caller's ring rs[i] stays as it is and the copy is returned.
ValueReceiver(rs, i, rng) == Append(rs, rng)

\* An entry of origin: the call, its receiver and, for New, its options.
Origin(by, recv, opts) == [by |-> by, recv |-> recv, opts |-> opts]

Returned(rng, i, o) ==
    /\ rings' = ValueReceiver(rings, i, rng)
    /\ lineage' = Append(lineage, lineage[i])
    /\ origin' = Append(origin, Origin(o.name, i, <<>>))
    /\ op' = o

Op(n, i, k, v) == [name |-> n, recv |-> i, key |-> k, val |-> v]

DoNew(opts) ==
    /\ Len(rings) < MaxRings
    /\ LET b == New(opts, envHeap, metaHeap)
       IN  /\ rings' = Append(rings, b.rng)
           /\ envHeap' = b.envHeap
           /\ metaHeap' = b.metaHeap
    /\ lineage' = Append(lineage, Len(rings) + 1)
    /\ origin' = Append(origin, Origin("New", 0, opts))
    /\ op' = Op("New", 0, <<>>, opts)
    /\ UNCHANGED <<bufVars, freeVars, storeVars, testerVars>>

DoWithStdin(i) ==
    /\ Len(rings) < MaxRings
    /\ Returned(WithStdin(rings[i], "sin"), i, Op("WithStdin", i, <<>>, "sin"))
    /\ UNCHANGED <<envHeap, metaHeap, bufVars, freeVars, storeVars, testerVars>>

DoWithStdout(i) ==
    /\ Len(rings) < MaxRings
    /\ Returned(WithStdout(rings[i], "sout"), i, Op("WithStdout", i, <<>>, "sout"))
    /\ UNCHANGED <<envHeap, metaHeap, bufVars, freeVars, storeVars, testerVars>>

DoWithStderr(i) ==
    /\ Len(rings) < MaxRings
    /\ Returned(WithStderr(rings[i], "eout"), i, Op("WithStderr", i, <<>>, "eout"))
    /\ UNCHANGED <<envHeap, metaHeap, bufVars, freeVars, storeVars, testerVars>>

DoWithArgs(i, args) ==
    /\ Len(rings) < MaxRings
    /\ Returned(WithArgs(rings[i], args), i, Op("WithArgs", i, <<>>, args))
    /\ UNCHANGED <<envHeap, metaHeap, bufVars, freeVars, storeVars, testerVars>>

DoWithName(i, n) ==
    /\ Len(rings) < MaxRings
    /\ Returned(WithName(rings[i], n), i, Op("WithName", i, <<>>, n))
    /\ UNCHANGED <<envHeap, metaHeap, bufVars, freeVars, storeVars, testerVars>>

DoEnvSet(i, key, value) ==
    /\ Len(rings) < MaxRings
    /\ \E have \in EnvGetAll(Deref(envHeap, rings[i].e)) :
         LET r == RingEnvSet(rings[i], envHeap, have, key, value)
         IN  /\ envHeap' = r.envHeap
             /\ Returned(r.rng, i, Op("EnvSet", i, key, value))
    /\ UNCHANGED <<metaHeap, bufVars, freeVars, storeVars, testerVars>>

DoEnvSetBulk(i, env) ==
    /\ Len(rings) < MaxRings
    /\ \E have \in EnvGetAll(Deref(envHeap, rings[i].e)) :
         LET r == RingEnvSetBulk(rings[i], envHeap, have, env)
         IN  /\ envHeap' = r.envHeap
             /\ Returned(r.rng, i, Op("EnvSetBulk", i, <<>>, env))
    /\ UNCHANGED <<metaHeap, bufVars, freeVars, storeVars, testerVars>>

DoEnvUnset(i, key) ==
    /\ Len(rings) < MaxRings
    /\ \E have \in EnvGetAll(Deref(envHeap, rings[i].e)) :
         LET r == RingEnvUnset(rings[i], envHeap, have, key)
         IN  /\ envHeap' = r.envHeap
             /\ Returned(r.rng, i, Op("EnvUnset", i, key, <<>>))
    /\ UNCHANGED <<metaHeap, bufVars, freeVars, storeVars, testerVars>>

\* rng.EnvSetFrom(src): the entries are written into the map the ring shares
\* with every ring copied from it; the ring itself is not replaced.
DoEnvSetFrom(i, src) ==
    /\ rings[i].e # NilMap
    /\ envHeap' = [envHeap EXCEPT ![rings[i].e] = EnvSetFrom(@, src)]
    /\ op' = Op("EnvSetFrom", i, <<>>, src)
    /\ UNCHANGED <<metaHeap, rings, lineage, origin, bufVars, freeVars, storeVars, testerVars>>

\* rng.IsZero(): reads the ring, returns a boolean.
DoIsZero(i) ==
    /\ op' = Op("IsZero", i, <<>>, IsZero(rings[i], envHeap, metaHeap))
    /\ UNCHANGED <<envHeap, metaHeap, rings, lineage, origin, bufVars, freeVars, storeVars, testerVars>>

\* rng.FS(): reads the ring, returns the filesystem and the error.
DoFS(i) ==
    /\ op' = Op("FS", i, <<>>, FS(rings[i]))
    /\ UNCHANGED <<envHeap, metaHeap, rings, lineage, origin, bufVars, freeVars, storeVars, testerVars>>

\* What the Go runtime reports for m[key] = value on a nil map.
NilMapWrite == "assignment to entry in nil map"

\* rng.MetaSet(key, value): rng.m[key] = value panics when rng.m is nil (Ring{});
\* no ring is returned then.  New never returns a ring with a nil map.
DoMetaSet(i, key, value) ==
    /\ Len(rings) < MaxRings
    /\ IF rings[i].m = NilMap
       THEN /\ op' = Op("panic", i, key, NilMapWrite)
            /\ UNCHANGED <<metaHeap, rings, lineage, origin>>
       ELSE LET r == RingMetaSet(rings[i], metaHeap, key, value)
            IN  /\ metaHeap' = r.metaHeap
                /\ Returned(r.rng, i, Op("MetaSet", i, key, value))
    /\ UNCHANGED <<envHeap, bufVars, freeVars, storeVars, testerVars>>

DoMetaDelete(i, key) ==
    /\ Len(rings) < MaxRings
    /\ LET r == RingMetaDelete(rings[i], metaHeap, key)
       IN  /\ metaHeap' = r.metaHeap
           /\ Returned(r.rng, i, Op("MetaDelete", i, key, "nil"))
    /\ UNCHANGED <<envHeap, bufVars, freeVars, storeVars, testerVars>>

\* Number of maps the calling code gets from MetaAll in a behaviour.
MaxCopies == 1

\* all := rng.MetaAll(): maps.Clone(rng.m) allocates a map (nil stays nil) and
\* the caller holds the result.
DoMetaAll(i) ==
    /\ Cardinality(held) <= MaxCopies
    /\ IF rings[i].m = NilMap
       THEN /\ op' = Op("MetaAll", i, <<>>, NilMap)
            /\ UNCHANGED <<metaHeap, held>>
       ELSE /\ metaHeap' = Append(metaHeap, MetaAll(rings[i], metaHeap))
            /\ held' = held \cup {Len(metaHeap) + 1}
            /\ op' = Op("MetaAll", i, <<>>, Len(metaHeap) + 1)
    /\ UNCHANGED <<envHeap, rings, lineage, origin, tst, bufs, cleanups, reported,
                   tlog, nops, torn, bufVars, freeVars, storeVars>>

\* m[key] = value, written by the calling code into a map it holds.
DoCallerSet(a, key, value) ==
    /\ a \in held
    /\ metaHeap' = [metaHeap EXCEPT ![a] = MapSet(@, key, value)]
    /\ op' = Op("caller.set", 0, key, a)
    /\ UNCHANGED <<envHeap, rings, lineage, origin, bufVars, freeVars, storeVars,
                   testerVars>>

\* delete(m, key), done by the calling code on a map it holds.
DoCallerDelete(a, key) ==
    /\ a \in held
    /\ metaHeap' = [metaHeap EXCEPT ![a] = MapDelete(@, key)]
    /\ op' = Op("caller.delete", 0, key, a)
    /\ UNCHANGED <<envHeap, rings, lineage, origin, bufVars, freeVars, storeVars,
                   testerVars>>

NextRing ==
    \/ \E opts \in NewOptions : DoNew(opts)
    \/ \E i \in DOMAIN rings : DoWithStdin(i)
    \/ \E i \in DOMAIN rings : DoWithStdout(i)
    \/ \E i \in DOMAIN rings : DoWithStderr(i)
    \/ \E i \in DOMAIN rings : \E args \in ArgsInputs : DoWithArgs(i, args)
    \/ \E i \in DOMAIN rings : \E n \in NameInputs : DoWithName(i, n)
    \/ \E i \in DOMAIN rings : \E kv \in EnvSetInputs : DoEnvSet(i, kv[1], kv[2])
    \/ \E i \in DOMAIN rings : \E env \in EnvBulkInputs : DoEnvSetBulk(i, env)
    \/ \E i \in DOMAIN rings : \E key \in EnvUnsetInputs : DoEnvUnset(i, key)
    \/ \E i \in DOMAIN rings :
         \E key \in MetaKeys, value \in MetaValues : DoMetaSet(i, key, value)
    \/ \E i \in DOMAIN rings : \E key \in MetaKeys : DoMetaDelete(i, key)

\* The mutators of one lineage, interleaved with in-place changes of the
\* environment map through the promoted EnvSetFrom.
NextShare ==
    \/ \E i \in DOMAIN rings : DoWithStdin(i)
    \/ \E i \in DOMAIN rings : DoWithStdout(i)
    \/ \E i \in DOMAIN rings : DoWithStderr(i)
    \/ \E i \in DOMAIN rings : DoWithArgs(i, <<"-a", "b">>)
    \/ \E i \in DOMAIN rings : DoWithName(i, "cmd")
    \/ \E i \in DOMAIN rings : DoEnvSet(i, sB, sX)
    \/ \E i \in DOMAIN rings : DoEnvSetBulk(i, Slice(<<Line(sA, sY)>>))
    \/ \E i \in DOMAIN rings : DoEnvUnset(i, sA)
    \/ \E i \in DOMAIN rings : DoMetaSet(i, "k1", "v1")
    \/ \E i \in DOMAIN rings : DoMetaDelete(i, "k1")
    \/ \E i \in DOMAIN rings : \E src \in EnvSetFromInputs : DoEnvSetFrom(i, src)

\* The Ring part of the state before any New call.
RingIdle ==
    /\ envHeap = <<>>
    /\ metaHeap = <<>>
    /\ rings = <<>>
    /\ lineage = <<>>
    /\ origin = <<>>
    /\ op = Op("none", 0, <<>>, <<>>)

\* The Ring part of the state after a first New call.
InitRing ==
    \E opts \in NewOptions :
        LET b == New(opts, <<>>, <<>>)
        IN  /\ envHeap = b.envHeap
            /\ metaHeap = b.metaHeap
            /\ rings = <<b.rng>>
            /\ lineage = <<1>>
            /\ origin = << Origin("New", 0, opts) >>
            /\ op = Op("New", 0, <<>>, opts)

\* Ring{}: no maps, no streams, no clock, no arguments, no name.
ZeroRing ==
    [e      |-> NilMap,
     stdin  |-> "nil",
     stdout |-> "nil",
     stderr |-> "nil",
     clock  |-> "nil",
     args   |-> <<>>,
     name   |-> "",
     m      |-> NilMap,
     fs     |-> "nil"]

\* The Ring part of the state of a program that holds Ring{} or a Ring from New.
InitZero ==
    \/ /\ envHeap = <<>>
       /\ metaHeap = <<>>
       /\ rings = << ZeroRing >>
       /\ lineage = <<1>>
       /\ origin = << Origin("Ring{}", 0, <<>>) >>
       /\ op = Op("Ring{}", 0, <<>>, <<>>)
    \/ InitRing

\* Mutators that fill and empty the fields IsZero reads, and IsZero.
NextZero ==
    \/ \E i \in DOMAIN rings : \E args \in ArgsInputs : DoWithArgs(i, args)
    \/ \E i \in DOMAIN rings : \E n \in NameInputs : DoWithName(i, n)
    \/ \E i \in DOMAIN rings : DoEnvSet(i, sA, sX)
    \/ \E i \in DOMAIN rings : DoEnvUnset(i, sA)
    \/ \E i \in DOMAIN rings : DoMetaSet(i, "k1", "v1")
    \/ \E i \in DOMAIN rings : DoMetaDelete(i, "k1")
    \/ \E i \in DOMAIN rings : DoIsZero(i)

\* Option lists given to New by a program that may configure a filesystem.
FSOptionLists ==
    { <<>>,
      << OptWithFS("dirfs") >>,
      << OptWithFS("dirfs"), OptWithArgs(<<"a1">>), OptWithFS("rootfs") >> }

\* The Ring part of the state of a program that holds Ring{} or a Ring from New
\* with or without a filesystem.
InitFS ==
    \/ /\ envHeap = <<>>
       /\ metaHeap = <<>>
       /\ rings = << ZeroRing >>
       /\ lineage = <<1>>
       /\ origin = << Origin("Ring{}", 0, <<>>) >>
       /\ op = Op("Ring{}", 0, <<>>, <<>>)
    \/ \E opts \in FSOptionLists :
         LET b == New(opts, <<>>, <<>>)
         IN  /\ envHeap = b.envHeap
             /\ metaHeap = b.metaHeap
             /\ rings = <<b.rng>>
             /\ lineage = <<1>>
             /\ origin = << Origin("New", 0, opts) >>
             /\ op = Op("New", 0, <<>>, opts)

\* New with and without a filesystem, mutators, and FS.
NextFS ==
    \/ \E opts \in FSOptionLists : DoNew(opts)
    \/ \E i \in DOMAIN rings : \E args \in ArgsInputs : DoWithArgs(i, args)
    \/ \E i \in DOMAIN rings : DoWithStdout(i)
    \/ \E i \in DOMAIN rings : DoEnvSet(i, sA, sX)
    \/ \E i \in DOMAIN rings : DoMetaDelete(i, "k1")
    \/ \E i \in DOMAIN rings : DoFS(i)

\* Option lists given to New by a program that holds a metadata map (at the
\* address 1 of the heap) and passes it, or nil, to WithMeta.
MetaOptionLists ==
    { << OptWithMetaOf(1) >>,
      << OptWithMetaNil, OptWithArgs(<<"a1">>), OptWithMetaOf(1) >>,
      << OptWithMetaNil >> }

\* The Ring part of the state after m := map[string]any{"k1": "v0"} and one
\* New call.
InitMeta ==
    \E opts \in MetaOptionLists :
        LET b == New(opts, <<>>, << CallerMeta >>)
        IN  /\ envHeap = b.envHeap
            /\ metaHeap = b.metaHeap
            /\ rings = <<b.rng>>
            /\ lineage = <<1>>
            /\ origin = << Origin("New", 0, opts) >>
            /\ op = Op("New", 0, <<>>, opts)

\* New calls with the caller's map, changes through the contexts, MetaAll, and
\* changes the caller makes to the maps it holds.
NextMeta ==
    \/ \E opts \in MetaOptionLists : DoNew(opts)
    \/ \E i \in DOMAIN rings : DoMetaSet(i, "k2", "v1")
    \/ \E i \in DOMAIN rings : DoMetaDelete(i, "k1")
    \/ \E i \in DOMAIN rings : DoMetaAll(i)
    \/ \E a \in held : DoCallerSet(a, "k2", "c")
    \/ \E a \in held : DoCallerDelete(a, "k1")

----------------------------------------------------------------------------
(* TSBuffer: construction. *)

TSBuffDry     == "dry"
TSBuffWet     == "wet"
TSBuffDefault == "default"

Workers  == {"w1", "w2"}
Main     == "main"
Threads  == Workers \cup {Main}
NoThread == "none"

\* NewTSBuffer: the name is the first given name followed by a space.
NewTSBufferName(names) == IF Len(names) > 0 THEN <<names[1], " ">> ELSE <<>>

\* The calls that create the buffer under test.
Constructors ==
    { [fn |-> "NewTSBuffer", names |-> <<>>],
      [fn |-> "DryBuffer", names |-> <<"stdout">>],
      [fn |-> "WetBuffer", names |-> <<>>],
      [fn |-> "WetBuffer", names |-> <<"stderr">>] }

KindOf(fn) ==
    CASE fn = "NewTSBuffer" -> TSBuffDefault
      [] fn = "DryBuffer"   -> TSBuffDry
      [] fn = "WetBuffer"   -> TSBuffWet

NoCall == [method |-> "none", arg |-> <<>>]
NoRet  == [n |-> 0, err |-> "nil", s |-> <<>>]
NoSnap == [buf |-> <<>>, wc |-> 0, rc |-> 0, check |-> TRUE, held |-> FALSE]

\* The buffer as NewTSBuffer, DryBuffer or WetBuffer returns it.
Constructed(c) ==
    /\ buf = <<>>
    /\ wc = 0
    /\ rc = 0
    /\ check = TRUE
    /\ kind = KindOf(c.fn)
    /\ name = NewTSBufferName(c.names)
    /\ mx = NoThread
    /\ pc = [t \in Threads |-> "idle"]
    /\ call = [t \in Threads |-> NoCall]
    /\ tmp = [t \in Threads |-> 0]
    /\ ret = [t \in Threads |-> NoRet]
    /\ snap = NoSnap
    /\ prev = "none"
    /\ ncalls = 0
    /\ hist = <<>>
    /\ failures = <<>>

InitBuf == \E c \in Constructors : Constructed(c)

BufIdle == Constructed([fn |-> "NewTSBuffer", names |-> <<>>])

\* The calls a worker may make: w1 writes bytes, w2 writes a string.
Calls(t) ==
    (IF t = "w1"
     THEN {[method |-> "Write", arg |-> p] : p \in { <<"a", "b">>, <<>> }}
     ELSE {[method |-> "WriteString", arg |-> p] : p \in { <<"c">> }})
    \cup {[method |-> m, arg |-> <<>>] : m \in {"String", "Reset", "SkipChecks"}}

IsWrite(m) == m \in {"Write", "WriteString", "MustWriteString"}

----------------------------------------------------------------------------
(* TSBuffer: the methods, one action per step of a thread.  Every method   *)
(* starts with tsb.mx.Lock() and its deferred tsb.mx.Unlock() runs last.   *)

\* Mutant of LockFree: Lock never waits.
LockNeverWaits(m) == TRUE

\* sync.Mutex.Lock returns only when no thread holds the mutex.
LockFree(m) == m = NoThread

\* Mutant of WriteCount: the counter counts bytes.
WriteCountBytes(old, p) == old + Len(p)

\* tsb.wc++ in Write and WriteString: one per call.
WriteCount(old, p) == old + 1

\* Mutant of BufferWrite: the bytes are put in front of the accumulated ones.
BufferWriteInFront(b, p) == p \o b

\* bytes.Buffer.Write and WriteString append p and return its length, nil.
BufferWrite(b, p) == b \o p
WriteReturn(p)    == [n |-> Len(p), err |-> "nil", s |-> <<>>]

\* Mutant of StringInc: the cleanups read through the counting path too.
StringIncAlways(method) == TRUE

\* The inc argument that the caller passes to tsb.string: true in String, false
\* in the cleanups of DryBuffer and WetBuffer.
StringInc(method) == method = "String"

\* Mutant of CleanupRead: the cleanups read through String(), which locks.
CleanupReadLocks == "lock"

\* Where a cleanup reads the accumulator: tsb.string(false), which takes no lock.
CleanupRead == "string"

\* Mutant of ReadCount: String does not count the read.
ReadCountLost(old) == old

\* tsb.rc++ in tsb.string(true).
ReadCount(old) == old + 1

\* Mutant of ResetBuffer: Reset leaves the accumulated bytes.
ResetBufferKeeps == buf

\* What Reset stores in the counters and in the buffer.
ResetCount  == 0
ResetBuffer == <<>>

\* Mutant of SkipChecksValue: SkipChecks leaves the checks enabled.
SkipChecksKeeps == TRUE

\* What SkipChecks stores in tsb.check.
SkipChecksValue == FALSE

\* The messages of the cleanups, as format and arguments of t.Errorf.
DryMessage(nm, out) ==
    [format |-> "expected %sbuffer to be empty: want: have: %q", args |-> <<nm, out>>]
WetEmptyMessage(nm) ==
    [format |-> "expected %sbuffer not to be empty", args |-> <<nm>>]
WetExamineMessage(nm) ==
    [format |-> "expected %sbuffer to be examined with String or Buffer methods",
     args |-> <<nm>>]

\* Mutants of the conditions: inverted tests.
DryFailsInverted(out)      == out = <<>>
WetExamineFailsInverted(r) == r # 0

\* The conditions under which the cleanups report.
DryFails(out)        == out # <<>>
WetEmptyFails(out)   == out = <<>>
WetExamineFails(r)   == r = 0

\* The first step of a method's body, after Lock.
Body(method) ==
    CASE IsWrite(method)       -> "wc_load"
      [] method = "String"     -> "string"
      [] method = "Reset"      -> "reset_wc"
      [] method = "SkipChecks" -> "skip"
      [] method = "Cleanup"    -> "c_check"

Goto(t, l) == pc' = [pc EXCEPT ![t] = l]

\* A worker calls a method of the buffer.
Call(t, c) ==
    /\ pc[t] = "idle"
    /\ ncalls < MaxCalls
    /\ ncalls' = ncalls + 1
    /\ call' = [call EXCEPT ![t] = c]
    /\ ret' = [ret EXCEPT ![t] = NoRet]
    /\ Goto(t, "lock")
    /\ UNCHANGED <<buf, wc, rc, check, kind, name, mx, tmp, snap, prev, hist,
                   failures, ringVars, freeVars, storeVars, testerVars>>

\* The test ends: the cleanup registered by DryBuffer or WetBuffer runs.
StartCleanup ==
    /\ pc[Main] = "idle"
    /\ kind \in {TSBuffDry, TSBuffWet}
    /\ call' = [call EXCEPT ![Main] = [method |-> "Cleanup", arg |-> <<>>]]
    /\ Goto(Main, "lock")
    /\ UNCHANGED <<buf, wc, rc, check, kind, name, mx, tmp, ret, snap, prev,
                   ncalls, hist, failures, ringVars, freeVars, storeVars, testerVars>>

\* tsb.mx.Lock()
Lock(t) ==
    /\ pc[t] = "lock"
    /\ LockFree(mx)
    /\ mx' = t
    /\ snap' = [buf |-> buf, wc |-> wc, rc |-> rc, check |-> check, held |-> TRUE]
    /\ hist' = Append(hist, [t |-> t, method |-> call[t].method, arg |-> call[t].arg])
    /\ Goto(t, Body(call[t].method))
    /\ UNCHANGED <<buf, wc, rc, check, kind, name, call, tmp, ret, prev, ncalls,
                   failures, ringVars, freeVars, storeVars, testerVars>>

\* tsb.wc++ : the load
WcLoad(t) ==
    /\ pc[t] = "wc_load"
    /\ tmp' = [tmp EXCEPT ![t] = wc]
    /\ Goto(t, "wc_store")
    /\ UNCHANGED <<buf, wc, rc, check, kind, name, mx, call, ret, snap, prev,
                   ncalls, hist, failures, ringVars, freeVars, storeVars, testerVars>>

\* tsb.wc++ : the store
WcStore(t) ==
    /\ pc[t] = "wc_store"
    /\ wc' = WriteCount(tmp[t], call[t].arg)
    /\ tmp' = [tmp EXCEPT ![t] = 0]
    /\ Goto(t, "append")
    /\ UNCHANGED <<buf, rc, check, kind, name, mx, call, ret, snap, prev,
                   ncalls, hist, failures, ringVars, freeVars, storeVars, testerVars>>

\* return tsb.buf.Write(p) / tsb.buf.WriteString(s): the bytes are copied into
\* the buffer one after the other, tmp[t] counting those copied so far; the
\* call returns when the last one is in.
BufWrite(t) ==
    /\ pc[t] = "append"
    /\ LET p == call[t].arg
           k == tmp[t]
       IN  /\ buf' = IF k < Len(p) THEN BufferWrite(buf, <<p[k + 1]>>) ELSE buf
           /\ tmp' = [tmp EXCEPT ![t] = IF k < Len(p) THEN k + 1 ELSE k]
           /\ IF k + 1 >= Len(p)
              THEN /\ ret' = [ret EXCEPT ![t] = WriteReturn(p)]
                   /\ Goto(t, "unlock")
              ELSE /\ ret' = ret
                   /\ pc' = pc
    /\ UNCHANGED <<wc, rc, check, kind, name, mx, call, snap, prev, ncalls,
                   hist, failures, ringVars, freeVars, storeVars, testerVars>>

\* tsb.string(inc): if inc { tsb.rc++ } : the test and the load
StringEnter(t) ==
    /\ pc[t] = "string"
    /\ IF StringInc(call[t].method)
       THEN /\ tmp' = [tmp EXCEPT ![t] = rc]
            /\ Goto(t, "rc_store")
       ELSE /\ tmp' = tmp
            /\ Goto(t, "read")
    /\ UNCHANGED <<buf, wc, rc, check, kind, name, mx, call, ret, snap, prev,
                   ncalls, hist, failures, ringVars, freeVars, storeVars, testerVars>>

\* tsb.rc++ : the store
RcStore(t) ==
    /\ pc[t] = "rc_store"
    /\ rc' = ReadCount(tmp[t])
    /\ Goto(t, "read")
    /\ UNCHANGED <<buf, wc, check, kind, name, mx, call, tmp, ret, snap, prev,
                   ncalls, hist, failures, ringVars, freeVars, storeVars, testerVars>>

\* return tsb.buf.String(): to the caller of String, or into out of a cleanup
BufString(t) ==
    /\ pc[t] = "read"
    /\ ret' = [ret EXCEPT ![t] = [n |-> 0, err |-> "nil", s |-> buf]]
    /\ Goto(t, IF call[t].method = "Cleanup" THEN "c_cmp" ELSE "unlock")
    /\ UNCHANGED <<buf, wc, rc, check, kind, name, mx, call, tmp, snap, prev,
                   ncalls, hist, failures, ringVars, freeVars, storeVars, testerVars>>

\* Reset: tsb.wc = 0
ResetWc(t) ==
    /\ pc[t] = "reset_wc"
    /\ wc' = ResetCount
    /\ Goto(t, "reset_rc")
    /\ UNCHANGED <<buf, rc, check, kind, name, mx, call, tmp, ret, snap, prev,
                   ncalls, hist, failures, ringVars, freeVars, storeVars, testerVars>>

\* Reset: tsb.rc = 0
ResetRc(t) ==
    /\ pc[t] = "reset_rc"
    /\ rc' = ResetCount
    /\ Goto(t, "reset_buf")
    /\ UNCHANGED <<buf, wc, check, kind, name, mx, call, tmp, ret, snap, prev,
                   ncalls, hist, failures, ringVars, freeVars, storeVars, testerVars>>

\* Reset: tsb.buf.Reset()
ResetBuf(t) ==
    /\ pc[t] = "reset_buf"
    /\ buf' = ResetBuffer
    /\ Goto(t, "unlock")
    /\ UNCHANGED <<wc, rc, check, kind, name, mx, call, tmp, ret, snap, prev,
                   ncalls, hist, failures, ringVars, freeVars, storeVars, testerVars>>

\* SkipChecks: tsb.check = false
Skip(t) ==
    /\ pc[t] = "skip"
    /\ check' = SkipChecksValue
    /\ Goto(t, "unlock")
    /\ UNCHANGED <<buf, wc, rc, kind, name, mx, call, tmp, ret, snap, prev,
                   ncalls, hist, failures, ringVars, freeVars, storeVars, testerVars>>

\* Cleanup: if !tsb.check { return }
CleanupCheck(t) ==
    /\ pc[t] = "c_check"
    /\ Goto(t, IF ~check THEN "unlock" ELSE CleanupRead)
    /\ UNCHANGED <<buf, wc, rc, check, kind, name, mx, call, tmp, ret, snap,
                   prev, ncalls, hist, failures, ringVars, freeVars, storeVars, testerVars>>

\* Cleanup of DryBuffer: if out != "" { t.Errorf(...) }
DryCompare(t) ==
    /\ pc[t] = "c_cmp"
    /\ kind = TSBuffDry
    /\ failures' = IF DryFails(ret[t].s)
                   THEN Append(failures, DryMessage(name, ret[t].s))
                   ELSE failures
    /\ Goto(t, "unlock")
    /\ UNCHANGED <<buf, wc, rc, check, kind, name, mx, call, tmp, ret, snap,
                   prev, ncalls, hist, ringVars, freeVars, storeVars, testerVars>>

\* Cleanup of WetBuffer: if out == "" { t.Errorf(...); return }
WetCompare(t) ==
    /\ pc[t] = "c_cmp"
    /\ kind = TSBuffWet
    /\ IF WetEmptyFails(ret[t].s)
       THEN /\ failures' = Append(failures, WetEmptyMessage(name))
            /\ Goto(t, "unlock")
       ELSE /\ failures' = failures
            /\ Goto(t, "c_rc")
    /\ UNCHANGED <<buf, wc, rc, check, kind, name, mx, call, tmp, ret, snap,
                   prev, ncalls, hist, ringVars, freeVars, storeVars, testerVars>>

\* Cleanup of WetBuffer: if tsb.rc == 0 { t.Errorf(...) }
WetExamined(t) ==
    /\ pc[t] = "c_rc"
    /\ failures' = IF WetExamineFails(rc)
                   THEN Append(failures, WetExamineMessage(name))
                   ELSE failures
    /\ Goto(t, "unlock")
    /\ UNCHANGED <<buf, wc, rc, check, kind, name, mx, call, tmp, ret, snap,
                   prev, ncalls, hist, ringVars, freeVars, storeVars, testerVars>>

\* The deferred tsb.mx.Unlock(), and the return to the caller.
Unlock(t) ==
    /\ pc[t] = "unlock"
    /\ mx' = NoThread
    /\ prev' = call[t].method
    /\ snap' = NoSnap
    /\ tmp' = [tmp EXCEPT ![t] = 0]
    /\ Goto(t, IF t = Main THEN "done"
                ELSE IF call[t].method = "MustWriteString" THEN "must_err"
                ELSE "idle")
    /\ UNCHANGED <<buf, wc, rc, check, kind, name, call, ret, ncalls, hist,
                   failures, ringVars, freeVars, storeVars, testerVars>>

\* MustWriteString: if _, err := tsb.WriteString(s); err != nil { panic(err) }
MustCheck(t) ==
    /\ pc[t] = "must_err"
    /\ Goto(t, IF ret[t].err # "nil" THEN "panic" ELSE "idle")
    /\ UNCHANGED <<buf, wc, rc, check, kind, name, mx, call, tmp, ret, snap,
                   prev, ncalls, hist, failures, ringVars, freeVars, storeVars,
                   testerVars>>

NextBuf ==
    \/ \E t \in Workers : \E c \in Calls(t) : Call(t, c)
    \/ StartCleanup
    \/ \E t \in Threads : Lock(t)
    \/ \E t \in Threads : WcLoad(t)
    \/ \E t \in Threads : WcStore(t)
    \/ \E t \in Threads : BufWrite(t)
    \/ \E t \in Threads : StringEnter(t)
    \/ \E t \in Threads : RcStore(t)
    \/ \E t \in Threads : BufString(t)
    \/ \E t \in Threads : ResetWc(t)
    \/ \E t \in Threads : ResetRc(t)
    \/ \E t \in Threads : ResetBuf(t)
    \/ \E t \in Threads : Skip(t)
    \/ \E t \in Threads : CleanupCheck(t)
    \/ \E t \in Threads : DryCompare(t)
    \/ \E t \in Threads : WetCompare(t)
    \/ \E t \in Threads : WetExamined(t)
    \/ \E t \in Threads : Unlock(t)

\* The calls of the workers when the guard itself is observed: w1 writes bytes
\* and reads, w2 writes through MustWriteString, resets and skips the checks.
GuardCalls(t) ==
    IF t = "w1"
    THEN {[method |-> "Write", arg |-> <<"a", "b">>], [method |-> "String", arg |-> <<>>]}
    ELSE {[method |-> "MustWriteString", arg |-> <<"c">>],
          [method |-> "Reset", arg |-> <<>>], [method |-> "SkipChecks", arg |-> <<>>]}

\* A step of thread t inside a method, from after Lock to its return.
Run(t) ==
    \/ WcLoad(t) \/ WcStore(t) \/ BufWrite(t) \/ StringEnter(t) \/ RcStore(t)
    \/ BufString(t) \/ ResetWc(t) \/ ResetRc(t) \/ ResetBuf(t) \/ Skip(t)
    \/ CleanupCheck(t) \/ DryCompare(t) \/ WetCompare(t) \/ WetExamined(t)
    \/ Unlock(t) \/ MustCheck(t)

NextGuard ==
    \/ \E t \in Workers : \E c \in GuardCalls(t) : Call(t, c)
    \/ StartCleanup
    \/ \E t \in Threads : Lock(t)
    \/ \E t \in Threads : WcLoad(t)
    \/ \E t \in Threads : WcStore(t)
    \/ \E t \in Threads : BufWrite(t)
    \/ \E t \in Threads : StringEnter(t)
    \/ \E t \in Threads : RcStore(t)
    \/ \E t \in Threads : BufString(t)
    \/ \E t \in Threads : ResetWc(t)
    \/ \E t \in Threads : ResetRc(t)
    \/ \E t \in Threads : ResetBuf(t)
    \/ \E t \in Threads : Skip(t)
    \/ \E t \in Threads : CleanupCheck(t)
    \/ \E t \in Threads : DryCompare(t)
    \/ \E t \in Threads : WetCompare(t)
    \/ \E t \in Threads : WetExamined(t)
    \/ \E t \in Threads : Unlock(t)
    \/ \E t \in Threads : MustCheck(t)

\* The Go scheduler runs every runnable goroutine again and again, and
\* sync.Mutex hands the mutex to a goroutine that has waited long (starvation
\* mode), so a waiting Lock that can succeed again and again does succeed.
FairGuard ==
    \A t \in Threads : WF_vars(Run(t)) /\ SF_vars(Lock(t))

----------------------------------------------------------------------------
(* The free helper functions over raw KEY=VALUE slices.  A []string is a   *)
(* header (backing array, length, capacity) over an array in the heap      *)
(* arrays; array 0 is the nil slice's.  Unused cells hold the empty string. *)

\* Number of free-helper calls a behaviour makes.
MaxFreeCalls == 2

NilArr    == 0
NilHeader == [arr |-> NilArr, len |-> 0, cap |-> 0]

\* The elements a header shows, and the header as the lines NewEnv reads.
SliceItems(arrs, h) == IF h.arr = NilArr THEN <<>> ELSE SubSeq(arrs[h.arr], 1, h.len)
AsLines(arrs, h)    == IF h.arr = NilArr THEN NilSlice ELSE Slice(SliceItems(arrs, h))

\* env[:0]: the same array and capacity, no elements; nil stays nil.
Reslice0(h) == [h EXCEPT !.len = 0]

\* Capacity of the array append allocates when the slice is full.
GrowCap(cap) == IF cap = 0 THEN 1 ELSE 2 * cap

\* An array of capacity cap that starts with items.
MakeArray(items, cap) ==
    [i \in 1..cap |-> IF i <= Len(items) THEN items[i] ELSE <<>>]

\* A heap and a header over it.
Heap(arrs, h) == [arrays |-> arrs, h |-> h]

\* append(env, v): written in place while the capacity lasts, else the elements
\* move to a new, larger array.
GoAppend(b, v) ==
    IF b.h.len < b.h.cap
    THEN Heap([b.arrays EXCEPT ![b.h.arr][b.h.len + 1] = v],
              [b.h EXCEPT !.len = @ + 1])
    ELSE Heap(Append(b.arrays,
                     MakeArray(Append(SliceItems(b.arrays, b.h), v),
                               GrowCap(b.h.cap))),
              [arr |-> Len(b.arrays) + 1, len |-> b.h.len + 1,
               cap |-> GrowCap(b.h.cap)])

\* for _, val := range list { env = append(env, val) }
RECURSIVE AppendAll(_, _, _)
AppendAll(b, list, i) ==
    IF i > Len(list) THEN b ELSE AppendAll(GoAppend(b, list[i]), list, i + 1)

\* EnvSet and EnvUnset (free functions) after m.EnvGetAll() returned have:
\* env = env[:0], then every line appended to env.
RewriteEnv(arrs, env, have) ==
    AppendAll(Heap(arrs, Reslice0(env)), have.items, 1)

\* slices.Clone(env): nil for nil, a zero-capacity slice for an empty one, else
\* a new array that holds the elements.
GoSlicesClone(arrs, env) ==
    IF env.arr = NilArr THEN Heap(arrs, NilHeader)
    ELSE IF env.len = 0 THEN Heap(arrs, [env EXCEPT !.cap = 0])
    ELSE Heap(Append(arrs, SliceItems(arrs, env)),
              [arr |-> Len(arrs) + 1, len |-> env.len, cap |-> env.len])

\* Mutant of SetFrom: the result is written over env as EnvSet does.
SetFromReuse(arrs, env, src, have) ==
    IF DOMAIN src = {} THEN Heap(arrs, env)
    ELSE AppendAll(Heap(arrs, Reslice0(env)), have.items, 1)

\* SetFrom: a clone of env when src is empty, else the lines of a new Env
\* (have is what ret.EnvGetAll() returned, built by append from a nil slice).
SetFrom(arrs, env, src, have) ==
    IF DOMAIN src = {} THEN GoSlicesClone(arrs, env)
    ELSE AppendAll(Heap(arrs, NilHeader), have.items, 1)

\* EnvGetOr: the value when the key is present, else def.
EnvGetOr(m, key, def) ==
    IF EnvLookup(m, key).ok THEN EnvLookup(m, key).val ELSE def

\* Lines, keys, values and maps given to the free helpers.
FreeInputs ==
    { <<>>,
      << Line(sA, sX) >>,
      << Line(sA, sX), Line(sB, sY) >>,
      << Line(sB, sY), sA, Line(sA, <<>>) >> }
SpareCaps   == {0, 1}
FreeKeys    == {sA, sB}
FreeSources == { EmptyMap, [k \in {sA} |-> sZ], [k \in {sA, sB} |-> sZ] }

NoResult == [val |-> <<>>, ok |-> FALSE]
NoFree ==
    [fn |-> "none", key |-> <<>>, val |-> <<>>, arg |-> NilHeader, was |-> <<>>,
     out |-> NilHeader, res |-> NoResult]

\* The record of a call: its arguments, the elements of env at the call, the
\* returned slice (helpers that return one) and the returned value.
Called(fn, key, val, out, res) ==
    [fn |-> fn, key |-> key, val |-> val, arg |-> envArg,
     was |-> SliceItems(arrays, envArg), out |-> out, res |-> res]

\* The Env the helper builds from its argument: NewEnv(env).
ArgEnv == NewEnv(AsLines(arrays, envArg))

DoFreeEnvLookup(key) ==
    /\ nfree < MaxFreeCalls
    /\ nfree' = nfree + 1
    /\ free' = Called("EnvLookup", key, <<>>, NilHeader, EnvLookup(ArgEnv, key))
    /\ UNCHANGED <<arrays, envArg, ringVars, bufVars, storeVars, testerVars>>

DoFreeEnvGet(key) ==
    /\ nfree < MaxFreeCalls
    /\ nfree' = nfree + 1
    /\ free' = Called("EnvGet", key, <<>>, NilHeader,
                      [val |-> EnvGet(ArgEnv, key), ok |-> FALSE])
    /\ UNCHANGED <<arrays, envArg, ringVars, bufVars, storeVars, testerVars>>

DoFreeEnvGetOr(key, def) ==
    /\ nfree < MaxFreeCalls
    /\ nfree' = nfree + 1
    /\ free' = Called("EnvGetOr", key, def, NilHeader,
                      [val |-> EnvGetOr(ArgEnv, key, def), ok |-> FALSE])
    /\ UNCHANGED <<arrays, envArg, ringVars, bufVars, storeVars, testerVars>>

DoFreeEnvSet(key, val) ==
    /\ nfree < MaxFreeCalls
    /\ nfree' = nfree + 1
    /\ \E have \in EnvGetAll(MapSet(ArgEnv, key, val)) :
         LET b == RewriteEnv(arrays, envArg, have)
         IN  /\ arrays' = b.arrays
             /\ free' = Called("EnvSet", key, val, b.h, NoResult)
    /\ UNCHANGED <<envArg, ringVars, bufVars, storeVars, testerVars>>

DoFreeEnvUnset(key) ==
    /\ nfree < MaxFreeCalls
    /\ nfree' = nfree + 1
    /\ \E have \in EnvGetAll(MapDelete(ArgEnv, key)) :
         LET b == RewriteEnv(arrays, envArg, have)
         IN  /\ arrays' = b.arrays
             /\ free' = Called("EnvUnset", key, <<>>, b.h, NoResult)
    /\ UNCHANGED <<envArg, ringVars, bufVars, storeVars, testerVars>>

DoSetFrom(src) ==
    /\ nfree < MaxFreeCalls
    /\ nfree' = nfree + 1
    /\ \E have \in EnvGetAll(EnvSetFrom(ArgEnv, src)) :
         LET b == SetFrom(arrays, envArg, src, have)
         IN  /\ arrays' = b.arrays
             /\ free' = Called("SetFrom", <<>>, src, b.h, NoResult)
    /\ UNCHANGED <<envArg, ringVars, bufVars, storeVars, testerVars>>

\* The caller goes on with the returned slice: env = EnvSet(env, key, val).
DoReassign ==
    /\ free.fn \in {"EnvSet", "EnvUnset", "SetFrom"}
    /\ envArg # free.out
    /\ envArg' = free.out
    /\ UNCHANGED <<arrays, free, nfree, ringVars, bufVars, storeVars, testerVars>>

NextFree ==
    \/ \E key \in FreeKeys : DoFreeEnvLookup(key)
    \/ \E key \in FreeKeys : DoFreeEnvGet(key)
    \/ \E key \in FreeKeys : DoFreeEnvGetOr(key, sZ)
    \/ \E key \in FreeKeys : DoFreeEnvSet(key, sY)
    \/ \E key \in FreeKeys : DoFreeEnvUnset(key)
    \/ \E src \in FreeSources : DoSetFrom(src)
    \/ DoReassign

\* No free helper is in use.
FreeIdle ==
    /\ arrays = <<>>
    /\ envArg = NilHeader
    /\ free = NoFree
    /\ nfree = 0

\* The caller's env: nil, or a slice of lines with some spare capacity.
InitFree ==
    /\ \/ arrays = <<>> /\ envArg = NilHeader
       \/ \E lines \in FreeInputs, spare \in SpareCaps :
            /\ arrays = << MakeArray(lines, Len(lines) + spare) >>
            /\ envArg = [arr |-> 1, len |-> Len(lines), cap |-> Len(lines) + spare]
    /\ free = NoFree
    /\ nfree = 0

----------------------------------------------------------------------------
(* One Env value: built by NewEnv, changed in place by Env.EnvSet and      *)
(* Env.EnvUnset, replaced by the copy Ring.EnvUnset makes, and read by     *)
(* EnvLookup, EnvGet, EnvGetAll; EnvSplit and EnvGetOr read its lines.     *)

\* Lines given to NewEnv and EnvSplit.
EnvLineInputs ==
    { NilSlice,
      Slice(<<>>),
      Slice(<< Line(sA, sX) >>),
      Slice(<< Line(sA, sX), Line(sB, sY), Line(sA, sY) >>),
      Slice(<< Line(sA, <<>>), Line(sB, Line(sX, sY)) >>),
      Slice(<< <<>>, sA, Line(<<>>, sX), Line(sB, sY) >>),
      Slice(<< Line(sB, sY), <<>>, Line(sA, sX), sA, Line(sB, Line(sX, sY)),
               Line(<<>>, sX), Line(sA, <<>>) >>) }

StoreKeys   == {sA, sB}
StoreValues == {<<>>, sX}

\* Env{}: no map.
ZeroEnv == [isNil |-> TRUE, m |-> EmptyMap, by |-> "zero"]

\* An Env with the map m, left in this state by the operation by.
EnvValue(m, by) == [isNil |-> FALSE, m |-> m, by |-> by]

NoGot ==
    [fn |-> "none", key |-> <<>>, def |-> <<>>, res |-> NoResult,
     list |-> NilSlice, m |-> EmptyMap, lines |-> NilSlice, by |-> "zero"]

\* A result: the function, its arguments, what it returned, and the Env (map,
\* lines, origin) it was read from.
Got(fn, key, def, res, list, m) ==
    [fn |-> fn, key |-> key, def |-> def, res |-> res, list |-> list, m |-> m,
     lines |-> envLines, by |-> store.by]

DoNewEnv(lines) ==
    /\ envLines' = lines
    /\ store' = EnvValue(NewEnv(lines), "NewEnv")
    /\ got' = NoGot
    /\ UNCHANGED <<ringVars, bufVars, freeVars, testerVars>>

\* NewEnv on the list EnvGetAll returned last.
DoReparse ==
    /\ got.fn = "EnvGetAll"
    /\ envLines' = got.list
    /\ store' = EnvValue(NewEnv(got.list), "NewEnv")
    /\ got' = [got EXCEPT !.fn = "Reparse"]
    /\ UNCHANGED <<ringVars, bufVars, freeVars, testerVars>>

DoEnvSplit ==
    /\ got' = Got("EnvSplit", <<>>, <<>>, NoResult, NilSlice, EnvSplit(envLines.items))
    /\ UNCHANGED <<envLines, store, ringVars, bufVars, freeVars, testerVars>>

\* env.EnvSet(key, value): env.e[key] = value panics on the nil map of Env{} and
\* sets the entry in place otherwise.
DoStoreSet(key, value) ==
    /\ IF store.isNil
       THEN /\ got' = [NoGot EXCEPT !.fn = "panic", !.key = key, !.def = value]
            /\ store' = store
       ELSE /\ store' = EnvValue(MapSet(store.m, key, value), "EnvSet")
            /\ got' = NoGot
    /\ UNCHANGED <<envLines, ringVars, bufVars, freeVars, testerVars>>

\* delete(env.e, key) leaves a nil map nil.
DoStoreUnset(key) ==
    /\ store' = [store EXCEPT !.m = MapDelete(@, key), !.by = "EnvUnset"]
    /\ got' = NoGot
    /\ UNCHANGED <<envLines, ringVars, bufVars, freeVars, testerVars>>

\* rng.EnvUnset(key) on the Ring that embeds the Env: the returned Ring embeds
\* the copy, which is the Env observed from here on.
DoRingEnvUnset(key) ==
    /\ \E have \in EnvGetAll(store.m) :
         LET r == RingEnvUnset([defaultRing EXCEPT !.e = IF store.isNil THEN NilMap ELSE 1],
                               << store.m >>, have, key)
         IN  store' = EnvValue(r.envHeap[r.rng.e], "Ring.EnvUnset")
    /\ got' = NoGot
    /\ UNCHANGED <<envLines, ringVars, bufVars, freeVars, testerVars>>

DoStoreLookup(key) ==
    /\ got' = Got("EnvLookup", key, <<>>, EnvLookup(store.m, key), NilSlice, store.m)
    /\ UNCHANGED <<envLines, store, ringVars, bufVars, freeVars, testerVars>>

DoStoreGet(key) ==
    /\ got' = Got("EnvGet", key, <<>>, [val |-> EnvGet(store.m, key), ok |-> FALSE],
                  NilSlice, store.m)
    /\ UNCHANGED <<envLines, store, ringVars, bufVars, freeVars, testerVars>>

\* EnvGetOr(env, key, def) on the lines.
DoEnvGetOr(key, def) ==
    /\ got' = Got("EnvGetOr", key, def,
                  [val |-> EnvGetOr(NewEnv(envLines), key, def), ok |-> FALSE],
                  NilSlice, NewEnv(envLines))
    /\ UNCHANGED <<envLines, store, ringVars, bufVars, freeVars, testerVars>>

DoStoreGetAll ==
    /\ \E have \in EnvGetAll(store.m) :
         got' = Got("EnvGetAll", <<>>, <<>>, NoResult, have, store.m)
    /\ UNCHANGED <<envLines, store, ringVars, bufVars, freeVars, testerVars>>

NextEnv ==
    \/ \E lines \in EnvLineInputs : DoNewEnv(lines)
    \/ DoReparse
    \/ DoEnvSplit
    \/ \E key \in StoreKeys, value \in StoreValues : DoStoreSet(key, value)
    \/ \E key \in StoreKeys : DoStoreUnset(key)
    \/ \E key \in StoreKeys : DoRingEnvUnset(key)
    \/ \E key \in StoreKeys : DoStoreLookup(key)
    \/ \E key \in StoreKeys : DoStoreGet(key)
    \/ \E key \in StoreKeys : DoEnvGetOr(key, sZ)
    \/ DoStoreGetAll

\* No Env is under observation.
StoreIdle ==
    /\ envLines = NilSlice
    /\ store = ZeroEnv
    /\ got = NoGot

\* Env{} and the lines a caller holds.
InitStore ==
    /\ envLines \in EnvLineInputs
    /\ store = ZeroEnv
    /\ got = NoGot

----------------------------------------------------------------------------
(* The Tester of ringtest.  Its stdout and stderr are buffers made by       *)
(* DryBuffer and WetBuffer, whose checks run at the end of the test, the    *)
(* last registered first.  The Tester is used by one goroutine, so a method *)
(* of a buffer is one step here.                                            *)

\* Number of Tester and stream calls a behaviour makes before the test ends.
MaxTesterCalls == 4

\* NewTSBuffer(names...) with the kind DryBuffer or WetBuffer sets.
Tsb(fn, names) ==
    [name |-> NewTSBufferName(names), kind |-> KindOf(fn), buf |-> <<>>,
     wc |-> ResetCount, rc |-> ResetCount, check |-> TRUE]

\* Write: tsb.wc++ and the bytes appended.
TsbWrite(b, p) ==
    [b EXCEPT !.wc = WriteCount(@, p), !.buf = BufferWrite(@, p)]

\* String: tsb.string(true) counts the read; the content is returned.
TsbString(b) == [b EXCEPT !.rc = ReadCount(@)]

\* Reset: both counters and the bytes.
TsbReset(b) ==
    [b EXCEPT !.wc = ResetCount, !.rc = ResetCount, !.buf = <<>>]

\* The check DryBuffer or WetBuffer registered for b: what it reports.
TsbCleanup(b) ==
    IF ~b.check THEN <<>>
    ELSE IF b.kind = TSBuffDry
         THEN (IF DryFails(b.buf) THEN <<DryMessage(b.name, b.buf)>> ELSE <<>>)
         ELSE IF WetEmptyFails(b.buf) THEN <<WetEmptyMessage(b.name)>>
         ELSE IF WetExamineFails(b.rc) THEN <<WetExamineMessage(b.name)>>
         ELSE <<>>

\* The reports of the checks of the buffers cs[1..i], the last registered first.
RECURSIVE RunCleanups(_, _, _)
RunCleanups(bs, cs, i) ==
    IF i = 0 THEN <<>>
    ELSE LET msgs == TsbCleanup(bs[cs[i]])
         IN  [k \in DOMAIN msgs |-> [b |-> cs[i], msg |-> msgs[k]]]
                 \o RunCleanups(bs, cs, i - 1)

\* No Tester.
NoTester ==
    [e |-> NilMap, m |-> NilMap, sin |-> "nil", sout |-> 0, eout |-> 0,
     clock |-> "nil", name |-> ""]

\* A Tester under construction: the Tester, the map heaps and the buffers.
TBuild(t, eh, mh) == [tst |-> t, envHeap |-> eh, metaHeap |-> mh]

\* The options of ringtest.New.
TesterOption(b, o) ==
    CASE o.opt = "WithEnv" ->
             TBuild([b.tst EXCEPT !.e = Len(b.envHeap) + 1],
                    Append(b.envHeap, NewEnv(o.v)), b.metaHeap)
      [] o.opt = "WithName"  -> TBuild([b.tst EXCEPT !.name = o.v], b.envHeap, b.metaHeap)
      [] o.opt = "WithClock" -> TBuild([b.tst EXCEPT !.clock = o.v], b.envHeap, b.metaHeap)
      [] o.opt = "WithMeta"  ->
             LET a == AttachMeta(o.v, b.metaHeap)
             IN  TBuild([b.tst EXCEPT !.m = a.m], b.envHeap, a.metaHeap)

RECURSIVE TesterOptions(_, _, _)
TesterOptions(b, opts, i) ==
    IF i > Len(opts) THEN b ELSE TesterOptions(TesterOption(b, opts[i]), opts, i + 1)

\* Mutant of NewStreamKind: New makes wet buffers.
NewStreamKindWet == "WetBuffer"

\* The kind of buffer ringtest.New makes for stdout and stderr.
NewStreamKind == "DryBuffer"

\* The two buffers ringtest.New creates, stdout first.
TesterNewBuffers ==
    << Tsb(NewStreamKind, <<"stdout">>), Tsb(NewStreamKind, <<"stderr">>) >>

\* ringtest.New: dry stdout and stderr, the options in order, then the process
\* environment when no environment is attached and a fresh metadata map when
\* none is attached.
TesterNew(opts, eh, mh) ==
    LET t0 == [e |-> NilMap, m |-> NilMap, sin |-> "sin0", sout |-> 1, eout |-> 2,
               clock |-> "Now", name |-> Head(OsArgs)]
        b0 == TesterOptions(TBuild(t0, eh, mh), opts, 1)
        b1 == IF b0.tst.e = NilMap
              THEN TBuild([b0.tst EXCEPT !.e = Len(b0.envHeap) + 1],
                          Append(b0.envHeap, NewEnv(OsEnviron)), b0.metaHeap)
              ELSE b0
    IN  IF b1.tst.m = NilMap
        THEN TBuild([b1.tst EXCEPT !.m = Len(b1.metaHeap) + 1],
                    b1.envHeap, Append(b1.metaHeap, EmptyMap))
        ELSE b1

\* maps.Clone(m) as the argument of WithMeta: nil for nil, else a new map.
MapsCloneArg(mh, a) == IF a = NilMap THEN OptWithMetaNil ELSE OptWithMeta(mh[a])

\* Tester.Ring(args...): New with a clone of the serialised environment (have is
\* the result of tst.EnvGetAll()), a clone of the metadata map, the clock and
\* the arguments; then the name and the three streams the Tester holds now.
TesterRing(t, have, args, eh, mh) ==
    LET opts == << OptWithEnv(SlicesClone(have)), MapsCloneArg(mh, t.m),
                   OptWithClock(t.clock), OptWithArgs(args) >>
        b == New(opts, eh, mh)
    IN  Build(WithStderr(WithStdout(WithStdin(WithName(b.rng, t.name), t.sin),
                                    t.sout), t.eout),
              b.envHeap, b.metaHeap)

\* Mutant of StreamOf: a ring writes to the buffer the Tester holds now.
StreamOfTester(rng, t, stream) == IF stream = "stdout" THEN t.sout ELSE t.eout

\* rng.Stdout() and rng.Stderr(): the writer the ring was given.
StreamOf(rng, t, stream) == IF stream = "stdout" THEN rng.stdout ELSE rng.stderr

Streams == {"stdout", "stderr"}

\* The buffer the Tester holds for a stream.
TesterStream(t, stream) == IF stream = "stdout" THEN t.sout ELSE t.eout

\* An entry of tlog.
Event(ev, stream, b, arg, i) ==
    [ev |-> ev, stream |-> stream, b |-> b, arg |-> arg, ring |-> i]

Running == ~torn /\ nops < MaxTesterCalls

\* rng := tst.Ring(args...)
DoTesterRing(args) ==
    /\ Running
    /\ Len(rings) < MaxRings
    /\ \E have \in EnvGetAll(Deref(envHeap, tst.e)) :
         LET b == TesterRing(tst, have, args, envHeap, metaHeap)
         IN  /\ rings' = Append(rings, b.rng)
             /\ envHeap' = b.envHeap
             /\ metaHeap' = b.metaHeap
    /\ lineage' = Append(lineage, Len(rings) + 1)
    /\ origin' = Append(origin, Origin("Tester.Ring", 0, <<>>))
    /\ op' = Op("Tester.Ring", 0, <<>>, args)
    /\ tlog' = Append(tlog, Event("ring", "", 0, <<>>, Len(rings) + 1))
    /\ nops' = nops + 1
    /\ UNCHANGED <<tst, bufs, cleanups, reported, torn, held,
                   bufVars, freeVars, storeVars>>

\* tst.EnvSet(key, value), promoted from the embedded Env: set in place.
DoTesterEnvSet(key, value) ==
    /\ Running
    /\ envHeap' = [envHeap EXCEPT ![tst.e] = MapSet(@, key, value)]
    /\ op' = Op("Tester.EnvSet", 0, key, value)
    /\ nops' = nops + 1
    /\ UNCHANGED <<metaHeap, rings, lineage, origin, tst, bufs, cleanups, reported,
                   tlog, torn, held, bufVars, freeVars, storeVars>>

\* tst.WithStdin(sin)
DoTesterWithStdin(sin) ==
    /\ Running
    /\ tst' = [tst EXCEPT !.sin = sin]
    /\ op' = Op("Tester.WithStdin", 0, <<>>, sin)
    /\ nops' = nops + 1
    /\ UNCHANGED <<envHeap, metaHeap, rings, lineage, origin, bufs, cleanups,
                   reported, tlog, torn, held, bufVars, freeVars, storeVars>>

\* The kind of buffer WetStdout and WetStderr make.
WetKind == "WetBuffer"

\* tst.WetStdout() and tst.WetStderr(): a new wet buffer, whose check is
\* registered, takes the place of the stream's buffer in the Tester.
DoWet(stream) ==
    /\ Running
    /\ bufs' = Append(bufs, Tsb(WetKind, <<stream>>))
    /\ cleanups' = Append(cleanups, Len(bufs) + 1)
    /\ tst' = IF stream = "stdout" THEN [tst EXCEPT !.sout = Len(bufs) + 1]
              ELSE [tst EXCEPT !.eout = Len(bufs) + 1]
    /\ tlog' = Append(tlog, Event("wet", stream, Len(bufs) + 1, <<>>, 0))
    /\ op' = Op("Tester.Wet", 0, <<>>, stream)
    /\ nops' = nops + 1
    /\ UNCHANGED <<envHeap, metaHeap, rings, lineage, origin, reported, torn, held,
                   bufVars, freeVars, storeVars>>

\* tst.ResetStdout() and tst.ResetStderr()
DoReset(stream) ==
    /\ Running
    /\ bufs' = [bufs EXCEPT ![TesterStream(tst, stream)] = TsbReset(@)]
    /\ tlog' = Append(tlog, Event("reset", stream, TesterStream(tst, stream), <<>>, 0))
    /\ op' = Op("Tester.Reset", 0, <<>>, stream)
    /\ nops' = nops + 1
    /\ UNCHANGED <<envHeap, metaHeap, rings, lineage, origin, tst, cleanups,
                   reported, torn, held, bufVars, freeVars, storeVars>>

\* tst.Stdout() and tst.Stderr(): String() of the buffer the Tester holds.
DoRead(stream) ==
    /\ Running
    /\ bufs' = [bufs EXCEPT ![TesterStream(tst, stream)] = TsbString(@)]
    /\ tlog' = Append(tlog, Event("read", stream, TesterStream(tst, stream),
                                  bufs[TesterStream(tst, stream)].buf, 0))
    /\ op' = Op("Tester.Read", 0, <<>>, stream)
    /\ nops' = nops + 1
    /\ UNCHANGED <<envHeap, metaHeap, rings, lineage, origin, tst, cleanups,
                   reported, torn, held, bufVars, freeVars, storeVars>>

\* rng.Stdout().Write(p) and rng.Stderr().Write(p) on a ring of the Tester.
DoRingWrite(i, stream, p) ==
    /\ Running
    /\ origin[i].by = "Tester.Ring"
    /\ bufs' = [bufs EXCEPT ![StreamOf(rings[i], tst, stream)] = TsbWrite(@, p)]
    /\ tlog' = Append(tlog, Event("write", stream, StreamOf(rings[i], tst, stream), p, i))
    /\ op' = Op("Ring.Write", i, <<>>, stream)
    /\ nops' = nops + 1
    /\ UNCHANGED <<envHeap, metaHeap, rings, lineage, origin, tst, cleanups,
                   reported, torn, held, bufVars, freeVars, storeVars>>

\* The test ends: the registered checks run, the last registered first.
DoTeardown ==
    /\ ~torn
    /\ torn' = TRUE
    /\ reported' = RunCleanups(bufs, cleanups, Len(cleanups))
    /\ op' = Op("Teardown", 0, <<>>, <<>>)
    /\ UNCHANGED <<envHeap, metaHeap, rings, lineage, origin, tst, bufs, cleanups,
                   tlog, nops, held, bufVars, freeVars, storeVars>>

\* Option lists given to ringtest.New; the caller holds the map at CallerMap.
CallerMap == 1
TesterOptionLists ==
    { <<>>,
      << [opt |-> "WithEnv", v |-> Slice(<<Line(sA, sX)>>)],
         [opt |-> "WithName", v |-> "my"],
         OptWithMetaOf(CallerMap),
         [opt |-> "WithClock", v |-> "clk"] >> }

\* No Tester, no buffers of a Tester, no map held by the caller.
TesterIdle ==
    /\ tst = NoTester
    /\ bufs = <<>>
    /\ cleanups = <<>>
    /\ reported = <<>>
    /\ tlog = <<>>
    /\ nops = 0
    /\ torn = FALSE
    /\ held = {}

\* The state after tst := ringtest.New(t, opts...) in a test that holds a
\* metadata map.
InitTester ==
    \E opts \in TesterOptionLists :
        LET b == TesterNew(opts, <<>>, << CallerMeta >>)
        IN  /\ tst = b.tst
            /\ envHeap = b.envHeap
            /\ metaHeap = b.metaHeap
            /\ bufs = TesterNewBuffers
            /\ cleanups = <<1, 2>>
            /\ rings = <<>>
            /\ lineage = <<>>
            /\ origin = <<>>
            /\ op = Op("ringtest.New", 0, <<>>, opts)
            /\ reported = <<>>
            /\ tlog = <<>>
            /\ nops = 0
            /\ torn = FALSE
            /\ held = {CallerMap}

\* The stores of the Tester and of its rings: rings are taken and the stores
\* are changed in place through the Tester and through the rings.
NextTester ==
    \/ DoTesterRing(<<"a">>)
    \/ DoTesterEnvSet(<<>>, sX)
    \/ DoTesterWithStdin("sin1")
    \/ DoWet("stdout")
    \/ \E i \in DOMAIN rings : \E src \in EnvSetFromInputs : DoEnvSetFrom(i, src)
    \/ \E i \in DOMAIN rings : DoMetaSet(i, "k1", "v1")
    \/ \E i \in DOMAIN rings : DoMetaDelete(i, "k1")

\* The streams of the Tester: rings are taken, written to, the streams are made
\* wet, reset and read, and the test ends.
NextStreams ==
    \/ DoTesterRing(<<>>)
    \/ \E i \in DOMAIN rings : \E stream \in Streams : DoRingWrite(i, stream, <<"a">>)
    \/ \E stream \in Streams : DoWet(stream)
    \/ \E stream \in Streams : DoReset(stream)
    \/ \E stream \in Streams : DoRead(stream)
    \/ DoTeardown

----------------------------------------------------------------------------
(* Specifications. *)

\* The execution context: New and the mutators of Ring.
InitSpecRing == InitRing /\ BufIdle /\ FreeIdle /\ StoreIdle /\ TesterIdle
SpecRing     == InitSpecRing /\ [][NextRing]_vars

\* Ring{} or a new Ring, its mutators and IsZero.
InitSpecZero == InitZero /\ BufIdle /\ FreeIdle /\ StoreIdle /\ TesterIdle
SpecZero     == InitSpecZero /\ [][NextZero]_vars

\* Contexts made with and without a filesystem, and FS.
InitSpecFS == InitFS /\ BufIdle /\ FreeIdle /\ StoreIdle /\ TesterIdle
SpecFS     == InitSpecFS /\ [][NextFS]_vars

\* The calling code holds its map and nothing else; there is no Tester.
CallerHolds ==
    /\ tst = NoTester
    /\ bufs = <<>>
    /\ cleanups = <<>>
    /\ reported = <<>>
    /\ tlog = <<>>
    /\ nops = 0
    /\ torn = FALSE
    /\ held = {CallerMap}

\* Contexts made over a metadata map the calling code holds.
InitSpecMeta == InitMeta /\ BufIdle /\ FreeIdle /\ StoreIdle /\ CallerHolds
SpecMeta     == InitSpecMeta /\ [][NextMeta]_vars

\* One lineage of contexts whose environment maps are also changed in place.
SpecShare == InitSpecRing /\ [][NextShare]_vars

\* The free helpers, called on one env slice.
InitSpecFree == InitFree /\ RingIdle /\ BufIdle /\ StoreIdle /\ TesterIdle
SpecFree     == InitSpecFree /\ [][NextFree]_vars

\* One Env value and the lines it is built from.
InitSpecEnv == InitStore /\ RingIdle /\ BufIdle /\ FreeIdle /\ TesterIdle
SpecEnv     == InitSpecEnv /\ [][NextEnv]_vars

\* A Tester, its rings and their stores.
InitSpecTester == InitTester /\ BufIdle /\ FreeIdle /\ StoreIdle
SpecTester     == InitSpecTester /\ [][NextTester]_vars

\* A Tester, its rings and its stream buffers up to the end of the test.
SpecStreams == InitSpecTester /\ [][NextStreams]_vars

\* One buffer, used by the workers and checked by its cleanup.
InitSpecBuf == InitBuf /\ RingIdle /\ FreeIdle /\ StoreIdle /\ TesterIdle
SpecBuf     == InitSpecBuf /\ [][NextBuf]_vars

\* The buffer, its workers and the cleanup under a fair scheduler.
SpecBufFair == InitSpecBuf /\ [][NextGuard]_vars /\ FairGuard

----------------------------------------------------------------------------
(* Claims about the execution context, checked under SpecRing. *)

EnvMutators  == {"EnvSet", "EnvSetBulk", "EnvUnset"}
WithMutators == {"WithStdin", "WithStdout", "WithStderr", "WithArgs", "WithName"}
RingFields   == {"e", "stdin", "stdout", "stderr", "clock", "args", "name", "m", "fs"}

\* The field a With* mutator targets.
TargetField(n) ==
    CASE n = "WithStdin"  -> "stdin"
      [] n = "WithStdout" -> "stdout"
      [] n = "WithStderr" -> "stderr"
      [] n = "WithArgs"   -> "args"
      [] n = "WithName"   -> "name"

\* The environment and the metadata observable through ring j.
EnvOf(j)  == Deref(envHeap, rings[j].e)
MetaOf(j) == MetaAll(rings[j], metaHeap)
Last      == Len(rings)

\* C1: EnvSet, EnvUnset and EnvSetBulk leave the environment observable through
\* the receiver and through every context returned earlier as it was (EnvLookup
\* of every key, EnvGetAll); the returned context is the one that holds the set
\* value, or lacks the unset key.
C1_EnvMutatorsLeaveOthers ==
    [][ op'.name \in EnvMutators =>
          /\ \A j \in DOMAIN rings :
               /\ \A k \in EnvKeys :
                    RingEnvLookup(rings'[j], envHeap', k)
                        = RingEnvLookup(rings[j], envHeap, k)
               /\ EnvGetAll(Deref(envHeap', rings'[j].e)) = EnvGetAll(EnvOf(j))
          /\ Len(rings') = Len(rings) + 1
          /\ op'.name = "EnvSet" =>
               RingEnvLookup(rings'[Len(rings')], envHeap', op'.key)
                   = [val |-> op'.val, ok |-> TRUE]
          /\ op'.name = "EnvUnset" =>
               ~RingEnvLookup(rings'[Len(rings')], envHeap', op'.key).ok
      ]_vars

\* C1 witness: EnvSet on a ring that shares its map with an earlier ring; only
\* the returned ring holds the new value.
C1_Witness ==
    /\ Last = 3
    /\ op.name = "EnvSet"
    /\ \E j \in 1..2 :
         /\ j # op.recv
         /\ rings[j].e = rings[op.recv].e
         /\ RingEnvLookup(rings[j], envHeap, op.key)
                # RingEnvLookup(rings[Last], envHeap, op.key)
    /\ RingEnvLookup(rings[op.recv], envHeap, op.key)
           # RingEnvLookup(rings[Last], envHeap, op.key)

\* C2: after MetaSet(c, k, v) every context of c's lineage, c and the returned
\* context included, has v under k; after MetaDelete(c, k) none of them has k.
C2_MetaSharedInLineage ==
    /\ op.name = "MetaSet" =>
         \A j \in DOMAIN rings :
             lineage[j] = lineage[op.recv] =>
                 MetaLookup(rings[j], metaHeap, op.key) = [val |-> op.val, ok |-> TRUE]
    /\ op.name = "MetaDelete" =>
         \A j \in DOMAIN rings :
             lineage[j] = lineage[op.recv] =>
                 MetaLookup(rings[j], metaHeap, op.key) = [val |-> "nil", ok |-> FALSE]

\* C2 witness: MetaSet through a ring whose environment was copied by an
\* environment mutator; the ancestor holds the value too.
C2_Witness ==
    /\ Last = 3
    /\ op.name = "MetaSet"
    /\ op.recv = 2
    /\ lineage = <<1, 1, 1>>
    /\ rings[1].e # rings[2].e
    /\ MetaLookup(rings[1], metaHeap, op.key).ok

\* C3: a With* mutator returns the receiver with the targeted field replaced and
\* every other field as in the receiver; the rings that existed, the receiver
\* included, and their environment and metadata are as before the call.
C3_WithMutatorsFrame ==
    [][ op'.name \in WithMutators =>
          /\ Len(rings') = Len(rings) + 1
          /\ rings'[Len(rings')][TargetField(op'.name)] = op'.val
          /\ \A f \in RingFields \ {TargetField(op'.name)} :
               rings'[Len(rings')][f] = rings[op'.recv][f]
          /\ \A j \in DOMAIN rings :
               /\ rings'[j] = rings[j]
               /\ Deref(envHeap', rings'[j].e) = EnvOf(j)
               /\ MetaAll(rings'[j], metaHeap') = MetaOf(j)
      ]_vars

\* C3 witness: a chained call, WithArgs on the result of another With* mutator,
\* that changes the arguments.
C3_Witness ==
    /\ Last = 3
    /\ op.name = "WithArgs"
    /\ op.recv = 2
    /\ rings[2].e = rings[1].e
    /\ rings[2] # rings[1]
    /\ rings[3].args # rings[2].args

----------------------------------------------------------------------------
(* Claims about the buffer, checked under SpecBuf.  hist lists the calls in *)
(* the order in which they acquired the guard.                              *)

\* A call of method m is in h.
Has(h, m) == \E i \in DOMAIN h : h[i].method = m

\* The calls that acquired the guard before the cleanup did (all of them while
\* the cleanup has not acquired it).
BeforeCleanup ==
    IF Has(hist, "Cleanup")
    THEN SubSeq(hist, 1, (CHOOSE i \in DOMAIN hist : hist[i].method = "Cleanup") - 1)
    ELSE hist

\* The calls of h after its last Reset.
SinceReset(h) ==
    LET resets == {i \in DOMAIN h : h[i].method = "Reset"}
        last   == IF resets = {} THEN 0
                  ELSE CHOOSE i \in resets : \A j \in resets : j <= i
    IN  SubSeq(h, last + 1, Len(h))

\* The bytes the writes of h carry, in order.
RECURSIVE Written(_)
Written(h) ==
    IF h = <<>> THEN <<>>
    ELSE (IF IsWrite(h[1].method) THEN h[1].arg ELSE <<>>) \o Written(Tail(h))

\* The cleanup has run to its end and still holds the guard.
CleanupDone == pc[Main] = "unlock" /\ call[Main].method = "Cleanup"

\* C4: when each of the N workers has called Write or WriteString exactly once
\* and nothing else was called, then after all have returned the content is the
\* tokens concatenated in some order, each token once and in one piece, the
\* write counter is N, the read counter is as it was (0) and the length is the
\* sum of the token lengths.
C4_ConcurrentWriters ==
    LET calls == SelectSeq(hist, LAMBDA c : c.t \in Workers)
        tok(t) == (CHOOSE i \in DOMAIN calls : calls[i].t = t)
        N == Cardinality(Workers)
    IN  ( /\ \A t \in Workers : pc[t] = "idle"
          /\ ncalls = N
          /\ Len(calls) = N
          /\ \A t \in Workers :
               \E i \in DOMAIN calls : calls[i].t = t /\ IsWrite(calls[i].method) )
        => /\ \E f \in KeyOrders(Workers) :
                buf = calls[tok(f[1])].arg \o calls[tok(f[2])].arg
           /\ wc = N
           /\ rc = 0
           /\ Len(buf) = Len(calls[1].arg) + Len(calls[2].arg)

\* C4 witness: both workers have written once and returned, and the tokens
\* stand in the buffer in the order w2, w1.
C4_Witness ==
    /\ \A t \in Workers : pc[t] = "idle"
    /\ ncalls = 2
    /\ Len(hist) = 2
    /\ hist[1].t = "w2" /\ hist[2].t = "w1"
    /\ buf = <<"c", "a", "b">>
    /\ wc = 2

\* What the cleanup of a wet buffer reports for given contents and read count.
WetReport(content, reads) ==
    IF content = <<>> THEN <<WetEmptyMessage(name)>>
    ELSE IF reads = 0 THEN <<WetExamineMessage(name)>>
    ELSE <<>>

\* C5: the cleanup of a wet buffer with checks enabled reports, by the fields as
\* they are when it acquires the guard: 'not to be empty' iff the accumulator is
\* empty, else 'to be examined' iff the read counter is 0, else nothing; never
\* more than one failure.
C5_WetTeardownVerdict ==
    (CleanupDone /\ kind = TSBuffWet /\ snap.check)
        => /\ failures = WetReport(snap.buf, snap.rc)
           /\ Len(failures) <= 1

\* C5 witness: a wet cleanup that found bytes and a read counter of 0.
C5_Witness ==
    /\ CleanupDone /\ kind = TSBuffWet /\ snap.check
    /\ snap.buf # <<>> /\ snap.rc = 0 /\ snap.wc = 2
    /\ failures = <<WetExamineMessage(name)>>

\* C6 as claimed: the cleanup of a dry buffer reports nothing when no call wrote
\* a byte, and reports the written content when some call wrote bytes and
\* SkipChecks was not called.
C6_Original ==
    (CleanupDone /\ kind = TSBuffDry)
        => /\ Written(BeforeCleanup) = <<>> => failures = <<>>
           /\ (Written(BeforeCleanup) # <<>> /\ ~Has(BeforeCleanup, "SkipChecks"))
                  => /\ Len(failures) = 1
                     /\ failures[1].format = DryMessage(name, <<>>).format
                     /\ failures[1].args[2] # <<>>

\* C6 amended: the cleanup of a dry buffer reports nothing when no byte was
\* written since the last Reset; when bytes were written since the last Reset and
\* SkipChecks was not called, it reports one 'to be empty' failure that carries
\* those bytes.
C6_DrySinceReset ==
    (CleanupDone /\ kind = TSBuffDry)
        => LET content == Written(SinceReset(BeforeCleanup))
           IN  /\ content = <<>> => failures = <<>>
               /\ (content # <<>> /\ ~Has(BeforeCleanup, "SkipChecks"))
                      => failures = <<DryMessage(name, content)>>

\* C6 witness: a dry buffer written, reset and written again; the failure
\* carries the bytes written after the Reset.
C6_Witness ==
    /\ CleanupDone /\ kind = TSBuffDry
    /\ Has(BeforeCleanup, "Reset")
    /\ Written(BeforeCleanup) = <<"a", "b", "c">>
    /\ failures = <<DryMessage(name, <<"c">>)>>

\* C7 as claimed: for a wet buffer on which SkipChecks was not called, the
\* cleanup reports 'to be examined' when bytes were written and String was never
\* called, and nothing when bytes were written and String was called.
C7_Original ==
    (CleanupDone /\ kind = TSBuffWet /\ ~Has(BeforeCleanup, "SkipChecks")
                 /\ Written(BeforeCleanup) # <<>>)
        => /\ ~Has(BeforeCleanup, "String") => failures = <<WetExamineMessage(name)>>
           /\ Has(BeforeCleanup, "String") => failures = <<>>

\* C7 amended: for a wet buffer on which SkipChecks was not called, with bytes
\* written since the last Reset, the cleanup reports 'to be examined' when String
\* was not called since the last Reset, and nothing when it was.
C7_WetSinceReset ==
    (CleanupDone /\ kind = TSBuffWet /\ ~Has(BeforeCleanup, "SkipChecks")
                 /\ Written(SinceReset(BeforeCleanup)) # <<>>)
        => /\ ~Has(SinceReset(BeforeCleanup), "String")
                => failures = <<WetExamineMessage(name)>>
           /\ Has(SinceReset(BeforeCleanup), "String") => failures = <<>>

\* C7 witness: String, then Reset, then a write: String was called, but not
\* since the Reset, and the cleanup reports 'to be examined'.
C7_Witness ==
    /\ CleanupDone /\ kind = TSBuffWet
    /\ Len(BeforeCleanup) = 3
    /\ BeforeCleanup[1].method = "String"
    /\ BeforeCleanup[2].method = "Reset"
    /\ IsWrite(BeforeCleanup[3].method)
    /\ failures = <<WetExamineMessage(name)>>

\* A SkipChecks call has stored the flag: one is in hist and it is past its
\* store.
SkipChecksDone ==
    \E i \in DOMAIN hist :
        /\ hist[i].method = "SkipChecks"
        /\ i < Len(hist) \/ pc[hist[i].t] # "skip"

\* The cleanup acquired the guard after a SkipChecks call did.
CleanupAfterSkip ==
    \E i, j \in DOMAIN hist :
        i < j /\ hist[i].method = "SkipChecks" /\ hist[j].method = "Cleanup"

\* C8: from the store of SkipChecks on, the checks-enabled flag is false in every
\* state, whatever is called afterwards, and a cleanup (dry or wet) that runs
\* after it reports no failure.
C8_SkipChecksPermanent ==
    /\ SkipChecksDone => check = FALSE
    /\ CleanupAfterSkip => failures = <<>>

\* C8 witness: SkipChecks, then Reset and a write, then the cleanup, which ends
\* with bytes in the buffer, a read counter of 0 and nothing reported.
C8_Witness ==
    /\ CleanupDone
    /\ Len(BeforeCleanup) = 3
    /\ BeforeCleanup[1].method = "SkipChecks"
    /\ BeforeCleanup[2].method = "Reset"
    /\ buf # <<>> /\ rc = 0
    /\ failures = <<>>

\* C9: at the end of Reset the accumulator is empty and both counters are 0,
\* whatever was called before; a String call that acquires the guard right after
\* a Reset returns the empty string.
C9_ResetClears ==
    \A t \in Workers :
        pc[t] = "unlock" =>
            /\ call[t].method = "Reset" => (buf = <<>> /\ wc = 0 /\ rc = 0)
            /\ (call[t].method = "String" /\ prev = "Reset") => ret[t].s = <<>>

\* C9 witness: String right after a Reset that followed a write of bytes.
C9_Witness ==
    \E t \in Workers :
        /\ pc[t] = "unlock" /\ call[t].method = "String" /\ prev = "Reset"
        /\ Len(hist) = 3
        /\ Written(hist) # <<>>
        /\ hist[2].method = "Reset"

\* C10: a Write or WriteString call appends exactly its input to the end of the
\* accumulator, adds exactly 1 to the write counter whatever the input's length,
\* leaves the read counter (and the flag) as they were, and returns the input's
\* length with a nil error.
C10_WriteEffect ==
    \A t \in Workers :
        (pc[t] = "unlock" /\ IsWrite(call[t].method)) =>
            /\ buf = snap.buf \o call[t].arg
            /\ wc = snap.wc + 1
            /\ rc = snap.rc
            /\ check = snap.check
            /\ ret[t].n = Len(call[t].arg)
            /\ ret[t].err = "nil"

\* C10 witness: a write of the empty input finishes on a buffer that holds bytes
\* and has counted a read; the write counter goes from 1 to 2.
C10_Witness ==
    \E t \in Workers :
        /\ pc[t] = "unlock" /\ call[t].method = "Write" /\ call[t].arg = <<>>
        /\ snap.buf # <<>> /\ snap.rc = 1
        /\ snap.wc = 1 /\ wc = 2

----------------------------------------------------------------------------
(* Claims about the environment of the execution context (SpecRing). *)

\* The ring an operation returned and the lookups through a ring.
LookupIn(rs, eh, j, k) == RingEnvLookup(rs[j], eh, k)

\* C11: EnvSet(c, k, v) returns a context in which EnvLookup(k) = (v, true) and
\* every other key has exactly the lookup result it has in c; EnvUnset(c, k)
\* returns a context in which k is absent and every other key has exactly the
\* lookup result it has in c.
C11_FaithfulCopy ==
    [][ /\ op'.name = "EnvSet" =>
             /\ LookupIn(rings', envHeap', Len(rings'), op'.key)
                    = [val |-> op'.val, ok |-> TRUE]
             /\ \A k \in EnvKeys \ {op'.key} :
                    LookupIn(rings', envHeap', Len(rings'), k)
                        = LookupIn(rings, envHeap, op'.recv, k)
        /\ op'.name = "EnvUnset" =>
             /\ ~LookupIn(rings', envHeap', Len(rings'), op'.key).ok
             /\ \A k \in EnvKeys \ {op'.key} :
                    LookupIn(rings', envHeap', Len(rings'), k)
                        = LookupIn(rings, envHeap, op'.recv, k)
      ]_vars

\* A line is well formed when it holds a "=" that is not its first character;
\* its key is the text before the first "=", its value the text after it.
FirstEq(s) ==
    IF \E p \in DOMAIN s : s[p] = "="
    THEN CHOOSE p \in DOMAIN s : s[p] = "=" /\ \A q \in 1..(p - 1) : s[q] # "="
    ELSE 0
WellFormed(s)  == FirstEq(s) > 1
KeyOfLine(s)   == SubSeq(s, 1, FirstEq(s) - 1)
ValueOfLine(s) == SubSeq(s, FirstEq(s) + 1, Len(s))

\* The positions of the well-formed lines of key k, and the keys so named.
Occurrences(lines, k) ==
    {i \in DOMAIN lines : WellFormed(lines[i]) /\ KeyOfLine(lines[i]) = k}
KeysNamed(lines) ==
    {KeyOfLine(lines[i]) : i \in {j \in DOMAIN lines : WellFormed(lines[j])}}
LastOccurrence(lines, k) ==
    CHOOSE i \in Occurrences(lines, k) : \A j \in Occurrences(lines, k) : j <= i

\* The store m overlaid with the lines.
Overlay(m, lines) ==
    [k \in DOMAIN m \cup KeysNamed(lines) |->
        IF k \in KeysNamed(lines)
        THEN ValueOfLine(lines[LastOccurrence(lines, k)])
        ELSE m[k]]

\* The map the claim describes for a sequence of lines: the keys of the
\* well-formed lines, each with the value of its last occurrence.
ParsedMap(lines) == Overlay(EmptyMap, lines)

\* C12: EnvSetBulk(c, lines) returns a context whose environment is c's
\* environment overlaid with the parsed lines: a key of a well-formed line takes
\* the value of its last occurrence, every other key of c keeps c's value, and
\* malformed lines add or remove nothing.
C12_BulkOverlay ==
    [][ op'.name = "EnvSetBulk" =>
          Deref(envHeap', rings'[Len(rings')].e)
              = Overlay(Deref(envHeap, rings[op'.recv].e), op'.val.items)
      ]_vars

----------------------------------------------------------------------------
(* Claims about in-place changes of the environment map (SpecShare). *)

\* Ring j was returned by a mutator of the set by called on ring i.
ReturnedFrom(j, i, by) == origin[j].by \in by /\ origin[j].recv = i

AllMutators == EnvMutators \cup WithMutators \cup {"MetaSet", "MetaDelete"}

\* Rings i and j are receiver and result (either way) of a mutator of the set by.
Related(i, j, by) == ReturnedFrom(j, i, by) \/ ReturnedFrom(i, j, by)

\* C13 as stated: every mutator, the With* mutators included, returns a context
\* whose environment store is independent of the receiver's, so an in-place
\* change (EnvSetFrom) made afterwards through either of the two is not
\* observable through the other.
C13_Original ==
    [][ op'.name = "EnvSetFrom" =>
          \A j \in DOMAIN rings \ {op'.recv} :
              Related(op'.recv, j, AllMutators) =>
                  Deref(envHeap', rings'[j].e) = Deref(envHeap, rings[j].e)
      ]_vars

\* C13 as the code has it: EnvSet, EnvSetBulk and EnvUnset return a context
\* whose environment store is a fresh copy, so an in-place change made
\* afterwards through receiver or result is not observable through the other;
\* the With* and metadata mutators return a context that shares the receiver's
\* store, so receiver and result show the same environment after the change.
C13_EnvMutatorsFreshStore ==
    [][ op'.name = "EnvSetFrom" =>
          \A j \in DOMAIN rings \ {op'.recv} :
              /\ Related(op'.recv, j, EnvMutators) =>
                    Deref(envHeap', rings'[j].e) = Deref(envHeap, rings[j].e)
              /\ Related(op'.recv, j, AllMutators \ EnvMutators) =>
                    Deref(envHeap', rings'[j].e)
                        = Deref(envHeap', rings'[op'.recv].e)
      ]_vars

\* C13 witness: EnvSetFrom through a ring that has returned one context from an
\* environment mutator, which does not show the new value, and one from a
\* With* mutator, which does.
C13_Witness ==
    /\ op.name = "EnvSetFrom"
    /\ LookupIn(rings, envHeap, op.recv, sA) = [val |-> sZ, ok |-> TRUE]
    /\ \E j \in DOMAIN rings :
          /\ ReturnedFrom(j, op.recv, EnvMutators)
          /\ LookupIn(rings, envHeap, j, sA) # [val |-> sZ, ok |-> TRUE]
    /\ \E j \in DOMAIN rings :
          /\ ReturnedFrom(j, op.recv, WithMutators)
          /\ LookupIn(rings, envHeap, j, sA) = [val |-> sZ, ok |-> TRUE]

\* C19: IsZero returns true iff all four hold: no environment store is attached
\* to the context (an attached store with zero entries counts as attached),
\* the metadata store is absent or has zero entries, args is empty, and name is
\* empty.
C19_IsZero ==
    op.name = "IsZero" =>
        (op.val <=>
            /\ rings[op.recv].e = NilMap
            /\ (rings[op.recv].m = NilMap \/ DOMAIN MetaOf(op.recv) = {})
            /\ rings[op.recv].args = <<>>
            /\ rings[op.recv].name = "")

\* Whether an option named n is among opts, and the value of the last such one.
Touches(opts, n) == \E i \in DOMAIN opts : opts[i].opt = n
LastOption(opts, n) ==
    opts[CHOOSE i \in DOMAIN opts :
             opts[i].opt = n /\ \A j \in DOMAIN opts : opts[j].opt = n => j <= i].v

\* C20: New applies its options in the order given, so for each field the last
\* option that touches it determines the value (fields no option touches have
\* their defaults); the environment is the process environment only when no
\* option attached an environment store (an environment option with zero
\* entries gives an attached, empty environment), and the metadata store is an
\* empty, non-absent store when no option supplied one.
C20_NewOptions ==
    op.name = "New" =>
        LET r    == rings[Last]
            opts == op.val
        IN  /\ r.args = IF Touches(opts, "WithArgs")
                        THEN LastOption(opts, "WithArgs") ELSE Tail(OsArgs)
            /\ r.clock = IF Touches(opts, "WithClock")
                         THEN LastOption(opts, "WithClock") ELSE "Now"
            /\ r.name = Head(OsArgs)
            /\ <<r.stdin, r.stdout, r.stderr>> = <<"os.Stdin", "os.Stdout", "os.Stderr">>
            /\ r.e # NilMap
            /\ EnvOf(Last) = IF Touches(opts, "WithEnv")
                             THEN ParsedMap(LastOption(opts, "WithEnv").items)
                             ELSE ParsedMap(OsEnviron.items)
            /\ r.m # NilMap
            /\ metaHeap[r.m] =
                   IF Touches(opts, "WithMeta") /\ ~LastOption(opts, "WithMeta").isNil
                   THEN LastOption(opts, "WithMeta").m ELSE EmptyMap

\* C20 witness: New with two WithArgs and two WithEnv options, the last WithEnv
\* with no lines, and a WithMeta option: the second arguments, an attached empty
\* environment and the supplied metadata.
C20_Witness ==
    /\ op.name = "New"
    /\ Len(op.val) = 6
    /\ rings[Last].args = <<"a2">>
    /\ rings[Last].e # NilMap
    /\ EnvOf(Last) = EmptyMap
    /\ MetaOf(Last) = CallerMeta
    /\ Last > 1

----------------------------------------------------------------------------
(* Claims about the free helper functions (SpecFree). *)

\* Two slices share storage when elements of one are cells of the other's array.
SharesStorage(a, b) == a.arr # NilArr /\ a.arr = b.arr /\ a.cap > 0 /\ b.cap > 0

SliceReturning == {"EnvSet", "EnvUnset", "SetFrom"}

\* The elements the caller sees through the slice it passed are as at the call.
InputKept == SliceItems(arrays, free.arg) = free.was

\* C14 as stated: no free helper (EnvLookup, EnvGet, EnvGetOr, EnvSet, EnvUnset,
\* SetFrom) changes the elements of the sequence passed to it, and the sequence
\* it returns shares no storage with the input.
C14_Original ==
    free.fn # "none" =>
        /\ InputKept
        /\ free.fn \in SliceReturning => ~SharesStorage(free.out, free.arg)

\* C14 as the code has it: EnvLookup, EnvGet, EnvGetOr and SetFrom leave the
\* elements of the input as they were and SetFrom returns a sequence that shares
\* no storage with the input; EnvSet and EnvUnset write their result over the
\* input, and return the input's own storage whenever the input is not nil and
\* the result fits its capacity.
C14_HelpersAndInput ==
    /\ free.fn \in {"EnvLookup", "EnvGet", "EnvGetOr", "SetFrom"} => InputKept
    /\ free.fn = "SetFrom" => ~SharesStorage(free.out, free.arg)
    /\ (free.fn \in {"EnvSet", "EnvUnset"} /\ free.arg.arr # NilArr
            /\ free.out.len <= free.arg.cap) =>
           /\ free.out.arr = free.arg.arr
           /\ free.out.cap = free.arg.cap

\* C14 witness: EnvSet returned the input's storage and the caller's slice shows
\* other elements than before the call.
C14_Witness ==
    /\ free.fn = "EnvSet"
    /\ SharesStorage(free.out, free.arg)
    /\ ~InputKept
    /\ Len(free.was) > 1

----------------------------------------------------------------------------
(* Claims about one Env value and its lines (SpecEnv). *)

\* C15: parsing lines (EnvSplit, NewEnv) yields the map in which a line gives
\* key = text before its first "=" and value = all text after it (further "="
\* stay in the value, an empty value is kept); lines with no "=" or with an
\* empty key are dropped; of several lines with one key the last one's value is
\* stored.
C15_ParseLines ==
    /\ store.by = "NewEnv" => store.m = ParsedMap(envLines.items)
    /\ got.fn = "EnvSplit" => got.m = ParsedMap(got.lines.items)

\* C15 witness: EnvSplit of seven lines, among them an empty line, a bare key, a
\* line with an empty key, two lines per key, an empty value and a value that
\* holds a "=".
C15_Witness ==
    /\ got.fn = "EnvSplit"
    /\ Len(got.lines.items) = 7
    /\ DOMAIN got.m = {sA, sB}
    /\ got.m[sA] = <<>>
    /\ got.m[sB] = <<"x", "=", "y">>
    /\ store.by = "NewEnv"
    /\ store.m = got.m

\* The entries of a list, and the entries the claims expect for a map.
Items(list)    == {list.items[i] : i \in DOMAIN list.items}
EntriesOf(m)   == {Line(k, m[k]) : k \in DOMAIN m}

\* C16: for any sequence of lines, serialising the parsed store gives (in some
\* order, hence equal after sorting) exactly one entry per distinct well-formed
\* key, carrying the value of the key's last occurrence; parsing that output
\* again yields a store equal to the first one.
C16_RoundTrip ==
    /\ (got.fn \in {"EnvGetAll", "Reparse"} /\ got.by = "NewEnv") =>
          /\ Len(got.list.items) = Cardinality(KeysNamed(got.lines.items))
          /\ Items(got.list) = EntriesOf(ParsedMap(got.lines.items))
    /\ (got.fn = "Reparse" /\ got.by = "NewEnv") => store.m = got.m

\* C16 witness: the seven lines with duplicates and malformed lines were parsed,
\* serialised to two entries, and parsed again.
C16_Witness ==
    /\ got.fn = "Reparse"
    /\ got.by = "NewEnv"
    /\ Len(got.lines.items) = 7
    /\ Len(got.list.items) = 2
    /\ envLines = got.list
    /\ store.m = got.m

\* C17: EnvLookup(key) returns (value, true) iff the key is present in the
\* store, also when the value is the empty string, and ("", false) when it is
\* absent; EnvGet(key) returns the same value, and "" for an absent key;
\* EnvGetOr returns the default only when the key is absent (not named by a
\* well-formed line), not when it is set to the empty string.
C17_Lookups ==
    /\ got.fn = "EnvLookup" =>
          /\ got.res.ok <=> got.key \in DOMAIN store.m
          /\ got.res.ok => got.res.val = store.m[got.key]
          /\ ~got.res.ok => got.res.val = <<>>
          /\ got.by = "NewEnv" =>
                (got.res.ok <=> got.key \in KeysNamed(got.lines.items))
    /\ got.fn = "EnvGet" =>
          got.res.val = IF got.key \in DOMAIN store.m
                        THEN store.m[got.key] ELSE <<>>
    /\ got.fn = "EnvGetOr" =>
          got.res.val = IF got.key \in KeysNamed(got.lines.items)
                        THEN ParsedMap(got.lines.items)[got.key] ELSE got.def

\* C17 witness: EnvLookup of a key that Env.EnvSet set to the empty string, on
\* an Env whose lines do not name the key.
C17_Witness ==
    /\ got.fn = "EnvLookup"
    /\ got.res = [val |-> <<>>, ok |-> TRUE]
    /\ store.by = "EnvSet"
    /\ got.key \notin KeysNamed(got.lines.items)

\* C18: EnvGetAll returns the nil sequence exactly when the store has zero
\* entries, whether the Env was never initialised, created empty, or emptied
\* by unsets (Env.EnvUnset, or the copies Ring.EnvUnset makes); otherwise it
\* returns exactly one KEY=VALUE entry per key.
C18_NilWhenEmpty ==
    got.fn = "EnvGetAll" =>
        /\ got.list.isNil <=> DOMAIN got.m = {}
        /\ Len(got.list.items) = Cardinality(DOMAIN got.m)
        /\ Items(got.list) = EntriesOf(got.m)

\* C18 witness: an Env parsed from lines that name two keys, emptied through
\* Ring.EnvUnset, serialises to nil.
C18_Witness ==
    /\ got.fn = "EnvGetAll"
    /\ got.list.isNil
    /\ got.by = "Ring.EnvUnset"
    /\ Cardinality(KeysNamed(got.lines.items)) = 2

----------------------------------------------------------------------------
(* Claims about stores without a backing map (SpecZero). *)

\* C21: every store operation, and every context mutator built on one, completes
\* without failure on every store value, the zero-value Ring with no backing map
\* included: no call ends in a panic.
C21_NeverFails == op.name # "panic"

----------------------------------------------------------------------------
(* Claims about the filesystem of the execution context (SpecFS). *)

\* The filesystem configured for ring i: the one the last WithFS option of the
\* New call it descends from gave, "nil" when there was none (or no New call).
ConfiguredFS(i) ==
    LET root == origin[lineage[i]]
    IN  IF root.by = "New" /\ Touches(root.opts, "WithFS")
        THEN LastOption(root.opts, "WithFS")
        ELSE "nil"

\* C24: FS() on a context returns the configured filesystem and no error iff a
\* filesystem was configured with WithFS; on a context without one it returns
\* no filesystem and the error ErrNoFsAccess, which is not nil, never a
\* filesystem view.
C24_FS ==
    op.name = "FS" =>
        /\ ConfiguredFS(op.recv) # "nil" =>
               op.val = [fs |-> ConfiguredFS(op.recv), err |-> "nil"]
        /\ ConfiguredFS(op.recv) = "nil" =>
               op.val = [fs |-> "nil", err |-> ErrNoFsAccess]
        /\ (op.val.err = "nil") <=> (ConfiguredFS(op.recv) # "nil")
        /\ ErrNoFsAccess # "nil"

\* C24 witness: two contexts of one program, the first made without a
\* filesystem and the second with one; FS on a descendant of the first returns
\* the error.
C24_Witness ==
    /\ op.name = "FS"
    /\ Len(rings) = 3
    /\ lineage[op.recv] = 1 /\ op.recv # 1
    /\ ConfiguredFS(1) = "nil" /\ ConfiguredFS(2) = "rootfs"
    /\ op.val.err = ErrNoFsAccess

----------------------------------------------------------------------------
(* Claims about the Tester and the stores of its rings (SpecTester). *)

\* The calls that change a store of a ring in place.
InPlaceMutators == {"EnvSetFrom", "MetaSet", "MetaDelete"}

\* The ring Tester.Ring returned has the content of the Tester's stores in
\* stores of its own.
RingCopiesTester ==
    /\ Deref(envHeap', rings'[Len(rings')].e) = Deref(envHeap, tst.e)
    /\ MetaAll(rings'[Len(rings')], metaHeap') = Deref(metaHeap, tst.m)
    /\ rings'[Len(rings')].e \notin {tst.e} \cup {rings[j].e : j \in DOMAIN rings}
    /\ rings'[Len(rings')].m \notin {tst.m} \cup {rings[j].m : j \in DOMAIN rings}

\* The ring Tester.Ring returned has the streams and the clock the Tester holds.
RingUsesTesterStreams ==
    /\ rings'[Len(rings')].stdin = tst.sin
    /\ rings'[Len(rings')].stdout = tst.sout
    /\ rings'[Len(rings')].stderr = tst.eout
    /\ rings'[Len(rings')].clock = tst.clock

\* A change made through ring op'.recv shows neither through the Tester nor
\* through a ring that descends from another Tester.Ring call.
ChangeStaysInRing ==
    /\ Deref(envHeap', tst.e) = Deref(envHeap, tst.e)
    /\ Deref(metaHeap', tst.m) = Deref(metaHeap, tst.m)
    /\ \A j \in DOMAIN rings :
         lineage[j] # lineage[op'.recv] =>
             /\ Deref(envHeap', rings'[j].e) = EnvOf(j)
             /\ MetaAll(rings'[j], metaHeap') = MetaOf(j)

\* C22: the ring Tester.Ring returns holds environment and metadata stores that
\* are copies of the Tester's, independent of the Tester's and of the stores of
\* every other ring of the Tester: a change made in place through one ring
\* (EnvSetFrom, MetaSet, MetaDelete) shows neither through the Tester nor through
\* another such ring; the ring uses the stdin, stdout and stderr buffers and the
\* clock the Tester holds when Ring is called.
C22_TesterRingStores ==
    [][ /\ op'.name = "Tester.Ring" => (RingCopiesTester /\ RingUsesTesterStreams)
        /\ op'.name \in InPlaceMutators => ChangeStaysInRing
      ]_vars

----------------------------------------------------------------------------
(* Claims about the streams of the Tester (SpecStreams).  tlog lists the    *)
(* stream calls in order; reported lists what the checks reported.          *)

\* The calls on one stream, and what the checks of its buffers reported.
StreamLog(s) == SelectSeq(tlog, LAMBDA e : e.stream = s)
StreamName(s) == NewTSBufferName(<<s>>)
ReportsOf(s) ==
    LET rs == SelectSeq(reported, LAMBDA r : bufs[r.b].name = StreamName(s))
    IN  [k \in DOMAIN rs |-> rs[k].msg]

HasEv(h, ev) == \E i \in DOMAIN h : h[i].ev = ev

\* The bytes the writes of h carry, in order.
RECURSIVE Wrote(_)
Wrote(h) ==
    IF h = <<>> THEN <<>>
    ELSE (IF h[1].ev = "write" THEN h[1].arg ELSE <<>>) \o Wrote(Tail(h))

\* The calls of h after its last reset.
AfterLastReset(h) ==
    LET resets == {i \in DOMAIN h : h[i].ev = "reset"}
        last   == IF resets = {} THEN 0
                  ELSE CHOOSE i \in resets : \A j \in resets : j <= i
    IN  SubSeq(h, last + 1, Len(h))

\* h is one WetStdout (WetStderr) call with no write before it, and after it a
\* write of bytes and a later read.
WetWrittenRead(h) ==
    \E w, i, j \in DOMAIN h :
        /\ w < i /\ i < j
        /\ h[w].ev = "wet"
        /\ \A k \in DOMAIN h : (h[k].ev = "wet" => k = w) /\ (h[k].ev = "write" => k > w)
        /\ h[i].ev = "write" /\ h[i].arg # <<>>
        /\ h[j].ev = "read"

\* As WetWrittenRead, where every write goes into the wet buffer and no reset
\* follows the write.
WetWrittenReadKept(h) ==
    \E w, i, j \in DOMAIN h :
        /\ w < i /\ i < j
        /\ h[w].ev = "wet"
        /\ \A k \in DOMAIN h :
             /\ h[k].ev = "wet" => k = w
             /\ h[k].ev = "write" => (k > w /\ h[k].b = h[w].b)
             /\ h[k].ev = "reset" => k < i
        /\ h[i].ev = "write" /\ h[i].arg # <<>>
        /\ h[j].ev = "read"

\* C23 as claimed: at teardown, a stream that was written to and never made wet
\* has one 'to be empty' report that names the stream and shows content; a
\* stream made wet and never written to has 'not to be empty' reports only; a
\* stream made wet, then written and then read has no report.
C23_Original ==
    torn =>
        \A s \in Streams :
            LET h == StreamLog(s)
            IN  /\ (~HasEv(h, "wet") /\ Wrote(h) # <<>>) =>
                       /\ Len(ReportsOf(s)) = 1
                       /\ ReportsOf(s)[1].format = DryMessage(<<>>, <<>>).format
                       /\ ReportsOf(s)[1].args[1] = StreamName(s)
                       /\ ReportsOf(s)[1].args[2] # <<>>
                /\ (HasEv(h, "wet") /\ Wrote(h) = <<>>) =>
                       /\ ReportsOf(s) # <<>>
                       /\ \A k \in DOMAIN ReportsOf(s) :
                            ReportsOf(s)[k] = WetEmptyMessage(StreamName(s))
                /\ WetWrittenRead(h) => ReportsOf(s) = <<>>

\* C23 amended: at teardown, a stream never made wet with bytes written since
\* its last reset has one 'to be empty' report that names the stream and shows
\* those bytes; a stream made wet and never written to has 'not to be empty'
\* reports only; a stream made wet, then written into its wet buffer and then
\* read, with no reset after the write and no write into the replaced dry
\* buffer, has no report.
C23_StreamVerdicts ==
    torn =>
        \A s \in Streams :
            LET h == StreamLog(s)
            IN  /\ (~HasEv(h, "wet") /\ Wrote(AfterLastReset(h)) # <<>>) =>
                       ReportsOf(s) = << DryMessage(StreamName(s), Wrote(AfterLastReset(h))) >>
                /\ (HasEv(h, "wet") /\ Wrote(h) = <<>>) =>
                       /\ ReportsOf(s) # <<>>
                       /\ \A k \in DOMAIN ReportsOf(s) :
                            ReportsOf(s)[k] = WetEmptyMessage(StreamName(s))
                /\ WetWrittenReadKept(h) => ReportsOf(s) = <<>>

\* C23 witness: stdout is written, reset and written again and stderr is left
\* alone; the only report is the stdout one and it shows the bytes written
\* after the reset.
C23_Witness ==
    /\ torn
    /\ [k \in DOMAIN StreamLog("stdout") |-> StreamLog("stdout")[k].ev]
           = <<"write", "reset", "write">>
    /\ reported = << [b |-> 1, msg |-> DryMessage(StreamName("stdout"), <<"a">>)] >>

----------------------------------------------------------------------------
(* Claims about the guard of the buffer (SpecBuf, SpecBufFair). *)

\* The place in hist of the call thread t is executing or executed last.
GuardIndex(t) ==
    CHOOSE i \in DOMAIN hist :
        hist[i].t = t /\ \A j \in DOMAIN hist : hist[j].t = t => j <= i

\* The calls that acquired the guard before the current call of thread t did.
BeforeCall(t) == SubSeq(hist, 1, GuardIndex(t) - 1)

\* C25: a String() call that runs while other threads write returns the bytes of
\* exactly the writes that acquired the guard before it and after the last
\* Reset before it, whole and in the order in which they acquired the guard: no
\* part of a write, and no write that has returned is missing.
C25_StringSeesWholeWrites ==
    \A t \in Workers :
        (pc[t] = "unlock" /\ call[t].method = "String")
            => ret[t].s = Written(SinceReset(BeforeCall(t)))

\* C25 witness: String returns the two bytes of the write before it while the
\* other worker waits for the guard with a write of its own.
C25_Witness ==
    \E t, u \in Workers :
        /\ pc[t] = "unlock" /\ call[t].method = "String"
        /\ ret[t].s = <<"a", "b">>
        /\ pc[u] = "lock" /\ IsWrite(call[u].method) /\ call[u].arg # <<>>

\* Thread t is between Lock and the end of Unlock.
Inside(t) == pc[t] \notin {"idle", "lock", "done", "must_err", "panic"}

\* Thread t takes a step.
Acts(t) == <<pc[t], tmp[t], ret[t]>>' # <<pc[t], tmp[t], ret[t]>>

\* C26: at most one operation is inside the guarded section, every step a
\* thread takes between Lock and Unlock (the only steps that read or write the
\* accumulator, the counters and the flag) is taken while it holds the guard,
\* and the four fields change only in a step of the holder.
C26_GuardedAccess ==
    [][ /\ Cardinality({t \in Threads : Inside(t)}) <= 1
        /\ Cardinality({t \in Threads : Inside(t)'}) <= 1
        /\ \A t \in Threads : (Inside(t) /\ Acts(t)) => mx = t
        /\ <<buf, wc, rc, check>>' # <<buf, wc, rc, check>>
               => \E t \in Threads : mx = t /\ Inside(t) /\ Acts(t) ]_vars

\* C26 witness: a write has copied one of its two bytes while the other worker
\* and the cleanup wait for the guard.
C26_Witness ==
    /\ pc["w1"] = "append" /\ tmp["w1"] = 1 /\ mx = "w1"
    /\ pc["w2"] = "lock" /\ pc[Main] = "lock"
    /\ Len(buf) = Len(snap.buf) + 1

\* C27: String adds exactly 1 to the read counter and leaves the accumulator,
\* the write counter and the flag as they were; a cleanup (dry or wet) leaves
\* all four as they were, so the cleanup of a wet buffer on which String was
\* never called finds the read counter 0 (and reports 'to be examined' when
\* there are bytes and the checks are enabled).
C27_ReadCounting ==
    /\ \A t \in Workers :
          (pc[t] = "unlock" /\ call[t].method = "String")
              => /\ rc = snap.rc + 1
                 /\ buf = snap.buf /\ wc = snap.wc /\ check = snap.check
    /\ (Inside(Main) /\ call[Main].method = "Cleanup")
          => <<buf, wc, rc, check>> = <<snap.buf, snap.wc, snap.rc, snap.check>>
    /\ (CleanupDone /\ kind = TSBuffWet /\ ~Has(BeforeCleanup, "String"))
          => /\ rc = 0
             /\ (check /\ buf # <<>>) => failures = <<WetExamineMessage(name)>>

\* C27 witness: the cleanup of a wet buffer after three writes and no String:
\* it has read the bytes, the read counter is 0 and it reports 'to be examined'.
C27_Witness ==
    /\ CleanupDone /\ kind = TSBuffWet
    /\ Len(BeforeCleanup) = 3 /\ ~Has(BeforeCleanup, "String")
    /\ ret[Main].s = buf /\ buf # <<>> /\ wc = 3 /\ rc = 0
    /\ failures = <<WetExamineMessage(name)>>

\* A call of thread t has returned (or t has made none).
AtRest(t) == pc[t] \in {"idle", "done"}

\* C28: no thread asks for the guard while it holds it, no thread holds it
\* after its call has returned (MustWriteString and the failure paths of the
\* cleanups included), and under a fair scheduler every call that asks for the
\* guard returns.
C28_GuardReleased ==
    /\ [](\A t \in Threads :
             /\ pc[t] = "lock" => mx # t
             /\ pc[t] \in {"idle", "done", "must_err", "panic"} => mx # t
             /\ pc[t] # "panic")
    /\ \A t \in Threads : (pc[t] = "lock") ~> AtRest(t)

\* C28 witness: three calls of the workers, MustWriteString among them, and a
\* cleanup that reported a failure have all returned and the guard is free.
C28_Witness ==
    /\ \A t \in Workers : pc[t] = "idle"
    /\ pc[Main] = "done" /\ failures # <<>>
    /\ ncalls = MaxCalls /\ Len(hist) = MaxCalls + 1
    /\ Has(hist, "MustWriteString")
    /\ mx = NoThread

----------------------------------------------------------------------------
(* Claims about the metadata map the caller passes to WithMeta (SpecMeta).  *)
(* The caller's map is at the address CallerMap of the heap.                *)

\* Ring i descends from a New call whose last WithMeta option was given the map
\* the caller holds.
GivenCallerMap(i) ==
    LET root == origin[lineage[i]]
    IN  /\ root.by = "New"
        /\ Touches(root.opts, "WithMeta")
        /\ LastOption(root.opts, "WithMeta").ref = CallerMap

GivenRings == {i \in DOMAIN rings : GivenCallerMap(i)}

\* What a map reads after the change named by o.
Changed(m, o) ==
    IF o.name \in {"MetaSet", "caller.set"}
    THEN MapSet(m, o.key, IF o.name = "MetaSet" THEN o.val ELSE "c")
    ELSE MapDelete(m, o.key)

----------------------------------------------------------------------------
(* Claims about the streams of the rings of a Tester (SpecStreams). *)

\* The buffers ringtest.New made for the streams.
FirstBuffer(s) == IF s = "stdout" THEN 1 ELSE 2

\* The buffer the Tester holds for stream s after the first k calls of tlog.
HeldAt(s, k) ==
    LET wets == {j \in 1..k : tlog[j].ev = "wet" /\ tlog[j].stream = s}
    IN  IF wets = {} THEN FirstBuffer(s)
        ELSE tlog[CHOOSE j \in wets : \A l \in wets : l <= j].b

\* The place in tlog of the Tester.Ring call that returned ring i.
TakenAt(i) == CHOOSE j \in DOMAIN tlog : tlog[j].ev = "ring" /\ tlog[j].ring = i

\* The bytes buffer b holds after the first k calls of tlog: those written into
\* it since it was last reset.
RECURSIVE ContentAt(_, _)
ContentAt(b, k) ==
    IF k = 0 THEN <<>>
    ELSE IF tlog[k].b # b THEN ContentAt(b, k - 1)
    ELSE IF tlog[k].ev = "reset" THEN <<>>
    ELSE IF tlog[k].ev = "write" THEN ContentAt(b, k - 1) \o tlog[k].arg
    ELSE ContentAt(b, k - 1)

\* The failures reported at teardown.
Reports == {reported[j].msg : j \in DOMAIN reported}

\* C30: a ring writes to the buffers the Tester held when Tester.Ring returned
\* it.  A write through a ring taken before the stream was made wet goes into
\* the replaced dry buffer: Stdout() (Stderr()) reads the buffer the Tester
\* holds now and does not show it, and at teardown the dry check reports 'to be
\* empty' with those bytes.  A write through a ring taken after WetStdout
\* (WetStderr) goes into the wet buffer the Tester held then.
C30_CapturedStreams ==
    \A s \in Streams : \A k \in DOMAIN tlog :
        /\ (tlog[k].ev = "write" /\ tlog[k].stream = s)
              => /\ tlog[k].b = HeldAt(s, TakenAt(tlog[k].ring))
                 /\ (torn /\ tlog[k].b = FirstBuffer(s) /\ HeldAt(s, k) # FirstBuffer(s)
                          /\ tlog[k].arg # <<>>)
                       => DryMessage(StreamName(s), ContentAt(FirstBuffer(s), Len(tlog)))
                              \in Reports
                 /\ HeldAt(s, TakenAt(tlog[k].ring)) # FirstBuffer(s)
                       => bufs[tlog[k].b].kind = TSBuffWet
        /\ (tlog[k].ev = "read" /\ tlog[k].stream = s)
              => /\ tlog[k].b = HeldAt(s, k)
                 /\ tlog[k].arg = ContentAt(HeldAt(s, k), k - 1)

\* C30 witness: a ring is taken, stdout is made wet, the ring writes to stdout
\* and Stdout() returns nothing; teardown reports 'not to be empty' for the wet
\* buffer and 'to be empty' with the written bytes for the dry one.
C30_Witness ==
    /\ torn
    /\ Len(tlog) = 4
    /\ tlog[1].ev = "ring"
    /\ tlog[2].ev = "wet" /\ tlog[2].stream = "stdout"
    /\ tlog[3].ev = "write" /\ tlog[3].stream = "stdout" /\ tlog[3].ring = tlog[1].ring
    /\ tlog[3].b = 1
    /\ tlog[4].ev = "read" /\ tlog[4].stream = "stdout" /\ tlog[4].arg = <<>>
    /\ Reports = { WetEmptyMessage(StreamName("stdout")),
                   DryMessage(StreamName("stdout"), <<"a">>) }

====
